---- MODULE Spec2Model ----
(***************************************************************************)
(* A model of the mux request router: the template compiler                *)
(* (newRouteRegexp, braceIndices), the URL builder (routeRegexp.url), the  *)
(* variable extraction (routeRegexpGroup.setMatch) and the dispatch of     *)
(* Router.Match and Router.ServeHTTP.                                      *)
(*                                                                         *)
(* Strings are sequences of symbols.  A symbol is one character, except    *)
(* that a few lexical units of the regular-expression and URL syntaxes are *)
(* one symbol each: a character class ("[^/]"), the opening of a named or  *)
(* non-capturing group ("(?P<", "(?:"), a group name ("v0"), the           *)
(* substitution slot of a reverse template ("%s") and a percent-encoded    *)
(* octet ("%2F").  Positions reported by the model are 0-based, as in Go.  *)
(***************************************************************************)
EXTENDS Integers, Sequences, FiniteSets, TLC

\* ------------------------------------------------------------------------
\* strings (package strings of the Go standard library, by what it does)
\* ------------------------------------------------------------------------

HasSuffix(s, c) == Len(s) > 0 /\ s[Len(s)] = c

Contains(s, c) == \E i \in 1..Len(s) : s[i] = c

\* strings.Index for a one-symbol separator: 0-based, -1 when absent.
Index(s, c) ==
    IF Contains(s, c)
    THEN (CHOOSE i \in 1..Len(s) : s[i] = c /\ \A j \in 1..(i-1) : s[j] # c) - 1
    ELSE -1

\* s[lo:hi] of Go, 0-based and half-open.
Slice(s, lo, hi) == SubSeq(s, lo + 1, hi)

\* ------------------------------------------------------------------------
\* regular expressions (package regexp of the Go standard library)
\* ------------------------------------------------------------------------

MetaSyms == {"\\", ".", "+", "*", "?", "(", ")", "|", "[", "]", "{", "}", "^", "$"}

ClassSyms == {"[^/]", "[^.]", "[/]", "[0-9]"}

Digits == {"0", "1", "2", "3", "4", "5", "6", "7", "8", "9"}

ClassHas(cls, c) ==
    CASE cls = "[^/]" -> c # "/"
      [] cls = "[^.]" -> c # "."
      [] cls = "[/]"  -> c = "/"
      [] cls = "[0-9]" -> c \in Digits

\* regexp.QuoteMeta: a backslash before every metacharacter.
RECURSIVE QuoteMeta(_)
QuoteMeta(s) ==
    IF s = <<>> THEN <<>>
    ELSE (IF Head(s) \in MetaSyms THEN <<"\\", Head(s)>> ELSE <<Head(s)>>)
         \o QuoteMeta(Tail(s))

\* A concatenation and an alternation as right-nested binary nodes.
RECURSIVE CatNode(_)
CatNode(atoms) ==
    IF atoms = <<>> THEN <<"eps">> ELSE <<"cat", Head(atoms), CatNode(Tail(atoms))>>

RECURSIVE AltNode(_)
AltNode(branches) ==
    IF Len(branches) = 1 THEN Head(branches)
    ELSE <<"alt", Head(branches), AltNode(Tail(branches))>>

\* A group being parsed: the alternatives completed so far, the atoms of
\* the alternative being read, and the number of the capture (0: the group
\* does not capture).
Frame(cap) == [cap |-> cap, alts |-> <<>>, cur |-> <<>>]

FrameNode(f) ==
    LET body == AltNode(Append(f.alts, CatNode(f.cur))) IN
    IF f.cap > 0 THEN <<"cap", f.cap, body>> ELSE body

ParseFail == [ok |-> FALSE, node |-> <<"eps">>, n |-> 0]

\* The parser of regexp.Compile over the syntax the templates use, reading
\* p from its i-th symbol: alternation binds loosest, then concatenation,
\* then the postfix repetitions.  stack holds the open groups, innermost
\* last, under the frame of the whole expression; n counts the capturing
\* groups opened so far.
RECURSIVE Parse(_, _, _, _)
Parse(p, i, n, stack) ==
    LET d      == Len(stack)
        top    == stack[d]
        c      == p[i]
        atom(a) == [stack EXCEPT ![d].cur = Append(@, a)]
    IN
    IF i > Len(p)
    THEN IF d = 1 THEN [ok |-> TRUE, node |-> FrameNode(top), n |-> n] ELSE ParseFail
    ELSE CASE c = "(?P<" ->
                IF i + 2 > Len(p) \/ p[i + 2] # ">" THEN ParseFail
                ELSE Parse(p, i + 3, n + 1, Append(stack, Frame(n + 1)))
           [] c = "("   -> Parse(p, i + 1, n + 1, Append(stack, Frame(n + 1)))
           [] c = "(?:" -> Parse(p, i + 1, n, Append(stack, Frame(0)))
           [] c = ")"   ->
                IF d = 1 THEN ParseFail
                ELSE Parse(p, i + 1, n,
                        [SubSeq(stack, 1, d - 1) EXCEPT ![d - 1].cur = Append(@, FrameNode(top))])
           [] c = "|"   ->
                Parse(p, i + 1, n,
                      [stack EXCEPT ![d].alts = Append(@, CatNode(top.cur)), ![d].cur = <<>>])
           [] c \in {"+", "*", "?"} ->
                IF top.cur = <<>> THEN ParseFail
                ELSE Parse(p, i + 1, n,
                        [stack EXCEPT ![d].cur[Len(top.cur)] =
                            <<(CASE c = "+" -> "plus" [] c = "*" -> "star" [] c = "?" -> "opt"),
                              @>>])
           [] c = "\\"  ->
                IF i + 1 > Len(p) THEN ParseFail
                ELSE Parse(p, i + 2, n, atom(<<"lit", p[i + 1]>>))
           [] c = "^"   -> Parse(p, i + 1, n, atom(<<"bol">>))
           [] c = "$"   -> Parse(p, i + 1, n, atom(<<"eol">>))
           [] c = "."   -> Parse(p, i + 1, n, atom(<<"any">>))
           [] c \in ClassSyms -> Parse(p, i + 1, n, atom(<<"class", c>>))
           [] c \in {"[", "]", "{", "}"} -> ParseFail
           [] OTHER     -> Parse(p, i + 1, n, atom(<<"lit", c>>))

\* regexp.Compile: the compiled expression, or err when the text is not one.
\* numSubexp is (*Regexp).NumSubexp, str is (*Regexp).String.
RegexpCompileFunc(p) ==
    LET r == Parse(p, 1, 0, <<Frame(0)>>) IN
    IF r.ok
    THEN [node |-> r.node, err |-> FALSE, numSubexp |-> r.n, str |-> p]
    ELSE [node |-> <<"eps">>, err |-> TRUE, numSubexp |-> 0, str |-> p]

NoCaps(n) == [k \in 1..n |-> <<-1, -1>>]

\* The backtracking search: every way node matches s from position i, as
\* <<end, captures>>, in the order of preference of Go's leftmost-first
\* matching (earlier alternative first, repetitions greedy).
RECURSIVE M(_, _, _, _), MThen(_, _, _, _), MStar(_, _, _, _)
M(node, s, i, caps) ==
    LET t == node[1] IN
    CASE t = "eps"   -> << <<i, caps>> >>
      [] t = "lit"   -> IF i < Len(s) /\ s[i + 1] = node[2] THEN << <<i + 1, caps>> >> ELSE <<>>
      [] t = "any"   -> IF i < Len(s) THEN << <<i + 1, caps>> >> ELSE <<>>
      [] t = "class" -> IF i < Len(s) /\ ClassHas(node[2], s[i + 1])
                        THEN << <<i + 1, caps>> >> ELSE <<>>
      [] t = "bol"   -> IF i = 0 THEN << <<i, caps>> >> ELSE <<>>
      [] t = "eol"   -> IF i = Len(s) THEN << <<i, caps>> >> ELSE <<>>
      [] t = "alt"   -> M(node[2], s, i, caps) \o M(node[3], s, i, caps)
      [] t = "cat"   -> MThen(M(node[2], s, i, caps), node[3], s, FALSE)
      [] t = "opt"   -> M(node[2], s, i, caps) \o << <<i, caps>> >>
      [] t = "star"  -> MStar(node[2], s, i, caps)
      [] t = "plus"  -> MThen(M(node[2], s, i, caps), node[2], s, TRUE)
      [] t = "cap"   ->
            LET rs == M(node[3], s, i, caps) IN
            [k \in 1..Len(rs) |->
                <<rs[k][1], [rs[k][2] EXCEPT ![node[2]] = <<i, rs[k][1]>>]>>]

\* Each result of rs continued by next (once), or by next* when star.
MThen(rs, next, s, star) ==
    IF rs = <<>> THEN <<>>
    ELSE (IF star THEN MStar(next, s, Head(rs)[1], Head(rs)[2])
          ELSE M(next, s, Head(rs)[1], Head(rs)[2]))
         \o MThen(Tail(rs), next, s, star)

\* Greedy repetition: one more iteration that consumes input is preferred
\* to stopping.
MStar(node, s, i, caps) ==
    LET rs == M(node, s, i, caps)
        adv == SelectSeq(rs, LAMBDA r : r[1] > i)
    IN MThen(adv, node, s, TRUE) \o << <<i, caps>> >>

\* The leftmost match of re in s (an unanchored search, as MatchString and
\* FindStringSubmatchIndex do): <<>> when there is none, else
\* <<start, end, captures>>.
RECURSIVE FindFrom(_, _, _)
FindFrom(re, s, i) ==
    IF i > Len(s) THEN <<>>
    ELSE LET rs == M(re.node, s, i, NoCaps(re.numSubexp)) IN
         IF rs # <<>> THEN <<i, rs[1][1], rs[1][2]>> ELSE FindFrom(re, s, i + 1)

MatchString(re, s) == FindFrom(re, s, 0) # <<>>

\* (*Regexp).FindStringSubmatchIndex: the flat index list; empty if no match.
RECURSIVE FlatCaps(_, _)
FlatCaps(caps, k) ==
    IF k > Len(caps) THEN <<>> ELSE caps[k] \o FlatCaps(caps, k + 1)

FindStringSubmatchIndex(re, s) ==
    LET f == FindFrom(re, s, 0) IN
    IF f = <<>> THEN <<>> ELSE <<f[1], f[2]>> \o FlatCaps(f[3], 1)

\* ------------------------------------------------------------------------
\* the template compiler (regexp.go)
\* ------------------------------------------------------------------------

regexpTypePath == "path"

regexpTypeHost == "host"

regexpTypePrefix == "prefix"

regexpTypeQuery == "query"

\* A faulty variant: every '{' starts a placeholder, the nested ones too.
RECURSIVE braceScanNested(_, _, _, _, _)
braceScanNested(s, i, level, idx, idxs) ==
    IF i >= Len(s)
    THEN IF level # 0 THEN [err |-> TRUE, idxs |-> <<>>]
         ELSE [err |-> FALSE, idxs |-> idxs]
    ELSE CASE s[i + 1] = "{" -> braceScanNested(s, i + 1, level + 1, i, idxs)
           [] s[i + 1] = "}" ->
                IF level - 1 = 0
                THEN braceScanNested(s, i + 1, level - 1, idx, idxs \o <<idx, i + 1>>)
                ELSE IF level - 1 < 0 THEN [err |-> TRUE, idxs |-> <<>>]
                ELSE braceScanNested(s, i + 1, level - 1, idx, idxs)
           [] OTHER -> braceScanNested(s, i + 1, level, idx, idxs)

\* braceIndices: the scan with its level counter; i is the 0-based position,
\* idx the position of the last '{' that opened level 1.
RECURSIVE braceScan(_, _, _, _, _)
braceScan(s, i, level, idx, idxs) ==
    IF i >= Len(s)
    THEN IF level # 0 THEN [err |-> TRUE, idxs |-> <<>>]
         ELSE [err |-> FALSE, idxs |-> idxs]
    ELSE CASE s[i + 1] = "{" ->
                braceScan(s, i + 1, level + 1, IF level + 1 = 1 THEN i ELSE idx, idxs)
           [] s[i + 1] = "}" ->
                IF level - 1 = 0
                THEN braceScan(s, i + 1, level - 1, idx, idxs \o <<idx, i + 1>>)
                ELSE IF level - 1 < 0 THEN [err |-> TRUE, idxs |-> <<>>]
                ELSE braceScan(s, i + 1, level - 1, idx, idxs)
           [] OTHER -> braceScan(s, i + 1, level, idx, idxs)

braceIndices(s) == braceScan(s, 0, 0, 0, <<>>)

\* varGroupName: "v" followed by the decimal index.
varGroupName(idx) == <<"v0", "v1", "v2", "v3">>[idx + 1]

\* strings.Contains(patternStr, ":") over symbols: the symbols whose text
\* holds a colon.
ColonSyms == {":", "(?:"}

NoRegexp == [node |-> <<"eps">>, err |-> TRUE, numSubexp |-> 0, str |-> <<>>]

\* What newRouteRegexp returns: err is "" and the routeRegexp's fields are
\* set, or err names the error ("panic" for the capture-group panic) and
\* there is no routeRegexp.
routeRegexpError(e) ==
    [err |-> e, template |-> <<>>, regexpType |-> regexpTypePath,
     options |-> [strictSlash |-> FALSE, useEncodedPath |-> FALSE,
                  strictQueryParamSep |-> FALSE],
     regexp |-> NoRegexp, reverse |-> <<>>, varsN |-> <<>>, varsR |-> <<>>,
     wildcardHostPort |-> FALSE]

\* A faulty variant: only the name of a placeholder is checked.
missingName(name, patt) == name = <<>>

\* The test newRouteRegexp makes on each placeholder: neither its name nor
\* its pattern may be empty.
missingNameOrPattern(name, patt) == name = <<>> \/ patt = <<>>

\* The loop of newRouteRegexp over the placeholders, i stepping by 2 over
\* idxs; st carries end, pattern, reverse, varsN, varsR and the error.
RECURSIVE compilePlaceholders(_, _, _, _, _)
compilePlaceholders(tpl, idxs, i, defaultPattern, st) ==
    IF i >= Len(idxs) THEN st
    ELSE LET groupIdx == i \div 2
             raw      == Slice(tpl, st.end, idxs[i + 1])
             end      == idxs[i + 2]
             tag      == Slice(tpl, idxs[i + 1], end)
             param    == Slice(tag, 1, Len(tag) - 1)
             colonIdx == Index(param, ":")
             name     == IF colonIdx = -1 THEN param ELSE Slice(param, 0, colonIdx)
             patt     == IF colonIdx = -1 THEN defaultPattern
                         ELSE Slice(param, colonIdx + 1, Len(param))
             varR     == RegexpCompileFunc(<<"^">> \o patt \o <<"$">>)
         IN
         IF missingNameOrPattern(name, patt)
         THEN [st EXCEPT !.err = "missing name or pattern"]
         ELSE IF varR.err THEN [st EXCEPT !.err = "error compiling regex"]
         ELSE compilePlaceholders(tpl, idxs, i + 2, defaultPattern,
                [err     |-> "",
                 reverse |-> st.reverse \o raw \o <<"%s">>,
                 varsN   |-> Append(st.varsN, name),
                 varsR   |-> Append(st.varsR, varR),
                 end     |-> end,
                 pattern |-> st.pattern \o QuoteMeta(raw)
                             \o <<"(?P<", varGroupName(groupIdx), ">">> \o patt \o <<")">>])

\* The end of newRouteRegexp: the routeRegexp of the compiled full pattern
\* reg, whose text is patternStr.
routeRegexpOf(template, typ, options, nvars, st, reverse, patternStr, reg) ==
    IF reg.err THEN routeRegexpError("error compiling regex")
    ELSE IF reg.numSubexp # nvars THEN routeRegexpError("panic")
    ELSE [err |-> "", template |-> template, regexpType |-> typ, options |-> options,
          regexp |-> reg, reverse |-> reverse, varsN |-> st.varsN, varsR |-> st.varsR,
          wildcardHostPort |-> typ = regexpTypeHost
                               /\ ~\E k \in 1..Len(patternStr) : patternStr[k] \in ColonSyms]

compileFullPattern(template, typ, options, nvars, st, reverse, patternStr) ==
    routeRegexpOf(template, typ, options, nvars, st, reverse, patternStr,
                  RegexpCompileFunc(patternStr))

\* newRouteRegexp after its loop over the placeholders, which ended in st:
\* the remaining literal text, the optional slash, the default pattern of an
\* empty query value and the end anchor.
afterPlaceholders(template, tpl, typ, options, endSlash, defaultPattern, nvars, st) ==
    LET raw      == Slice(tpl, st.end, Len(tpl))
        eqIdx    == Index(template, "=")
        queryVal == Slice(template, eqIdx + 1, Len(template))
    IN
    IF st.err # "" THEN routeRegexpError(st.err)
    ELSE IF typ = regexpTypeQuery /\ eqIdx = -1 THEN routeRegexpError("panic")
    ELSE compileFullPattern(template, typ, options, nvars, st,
            st.reverse \o raw \o (IF endSlash THEN <<"/">> ELSE <<>>),
            st.pattern \o QuoteMeta(raw)
            \o (IF options.strictSlash THEN <<"[/]", "?">> ELSE <<>>)
            \o (IF typ = regexpTypeQuery /\ queryVal = <<>> THEN defaultPattern ELSE <<>>)
            \o (IF typ # regexpTypePrefix THEN <<"$">> ELSE <<>>))

\* newRouteRegexp once braceIndices returned b.
compileTemplate(tpl0, typ, options0, b) ==
    LET defaultPattern ==
            IF typ = regexpTypeQuery THEN <<".", "*">>
            ELSE IF typ = regexpTypeHost THEN <<"[^.]", "+">>
            ELSE <<"[^/]", "+">>
        options  == IF typ # regexpTypePath
                    THEN [options0 EXCEPT !.strictSlash = FALSE] ELSE options0
        endSlash == options.strictSlash /\ HasSuffix(tpl0, "/")
        tpl      == IF endSlash THEN Slice(tpl0, 0, Len(tpl0) - 1) ELSE tpl0
    IN
    IF b.err THEN routeRegexpError("unbalanced braces")
    ELSE afterPlaceholders(tpl0, tpl, typ, options, endSlash, defaultPattern,
            Len(b.idxs) \div 2,
            compilePlaceholders(tpl, b.idxs, 0, defaultPattern,
                [err |-> "",
                 reverse |-> <<>>,
                 varsN |-> <<>>,
                 varsR |-> <<>>,
                 end |-> 0,
                 pattern |-> <<"^">>]))

newRouteRegexp(tpl, typ, options) == compileTemplate(tpl, typ, options, braceIndices(tpl))

\* ------------------------------------------------------------------------
\* query strings (findFirstQueryKey)
\* ------------------------------------------------------------------------

\* The number of bytes of a string: a percent-encoded octet is three bytes.
ByteLen(s) == Len(s) + 2 * Cardinality({k \in 1..Len(s) : s[k] \in {"%6B", "%2F"}})

\* url.QueryUnescape: "%6B" is k, '+' is a space, and a '%' that starts no
\* escape is an error.
QueryUnescapeSym(c) ==
    CASE c = "%6B" -> "k"
      [] c = "%2F" -> "/"
      [] c = "+"   -> " "
      [] OTHER     -> c

QueryUnescape(s) ==
    [err |-> Contains(s, "%"), str |-> [k \in 1..Len(s) |-> QueryUnescapeSym(s[k])]]

\* strings.IndexAny: the 0-based position of the first symbol of s in chars,
\* -1 when there is none.
IndexAny(s, chars) ==
    IF \E i \in 1..Len(s) : s[i] \in chars
    THEN (CHOOSE i \in 1..Len(s) : s[i] \in chars /\ \A j \in 1..(i-1) : s[j] \notin chars) - 1
    ELSE -1

\* A faulty variant: the semicolon separates pairs in strict mode too.
querySeparatorsLax(strict) == {"&", ";"}

\* The characters that end a key-value pair.
querySeparators(strict) == IF strict THEN {"&"} ELSE {"&", ";"}

NotFound == [ok |-> FALSE, value |-> <<>>]

RECURSIVE findFirstQueryKey(_, _, _)
findFirstQueryKey(rawQuery, key, strict) ==
    IF rawQuery = <<>> THEN NotFound
    ELSE LET i         == IndexAny(rawQuery, querySeparators(strict))
             pair      == IF i >= 0 THEN Slice(rawQuery, 0, i) ELSE rawQuery
             rest      == IF i >= 0 THEN Slice(rawQuery, i + 1, Len(rawQuery)) ELSE <<>>
             eq        == Index(pair, "=")
             foundKey  == IF eq >= 0 THEN Slice(pair, 0, eq) ELSE pair
             value     == IF eq >= 0 THEN Slice(pair, eq + 1, Len(pair)) ELSE <<>>
             keyString == QueryUnescape(foundKey)
             valueString == QueryUnescape(value)
         IN IF \/ Len(pair) = 0
               \/ ByteLen(foundKey) < ByteLen(key)
               \/ keyString.err
               \/ keyString.str # key
               \/ valueString.err
            THEN findFirstQueryKey(rest, key, strict)
            ELSE [ok |-> TRUE, value |-> valueString.str]

\* (*url.URL).Query()[key][0], by what url.ParseQuery does: pairs are
\* separated by '&' only, and a pair that holds a ';', is empty or does not
\* decode is left out.
RECURSIVE ParseQueryFirst(_, _)
ParseQueryFirst(query, key) ==
    IF query = <<>> THEN NotFound
    ELSE LET i     == Index(query, "&")
             pair  == IF i >= 0 THEN Slice(query, 0, i) ELSE query
             rest  == IF i >= 0 THEN Slice(query, i + 1, Len(query)) ELSE <<>>
             eq    == Index(pair, "=")
             k     == QueryUnescape(IF eq >= 0 THEN Slice(pair, 0, eq) ELSE pair)
             v     == QueryUnescape(IF eq >= 0 THEN Slice(pair, eq + 1, Len(pair)) ELSE <<>>)
         IN IF Contains(pair, ";") \/ pair = <<>> \/ k.err \/ v.err \/ k.str # key
            THEN ParseQueryFirst(rest, key)
            ELSE [ok |-> TRUE, value |-> v.str]

\* ------------------------------------------------------------------------
\* the URL builder (routeRegexp.url)
\* ------------------------------------------------------------------------

\* url.QueryEscape, symbol by symbol: unreserved characters stay, a space
\* becomes '+', anything else its percent-encoding.
QueryEscapeSym(c) ==
    CASE c = " " -> "+"
      [] c = "+" -> "%2B"
      [] c = "/" -> "%2F"
      [] c = ":" -> "%3A"
      [] c = "&" -> "%26"
      [] c = ";" -> "%3B"
      [] c = "=" -> "%3D"
      [] OTHER   -> c

QueryEscape(s) == [k \in 1..Len(s) |-> QueryEscapeSym(s[k])]

\* fmt.Sprintf(reverse, urlValues...): the k-th "%s" slot takes the k-th
\* value.
RECURSIVE Sprintf(_, _)
Sprintf(format, args) ==
    IF format = <<>> THEN <<>>
    ELSE IF Head(format) = "%s"
    THEN (IF args = <<>> THEN <<"%!s(MISSING)">> ELSE Head(args))
         \o Sprintf(Tail(format), IF args = <<>> THEN <<>> ELSE Tail(args))
    ELSE <<Head(format)>> \o Sprintf(Tail(format), args)

\* routeRegexp.url once the variables are known to have values and rv has
\* been built from them.
checkBuilt(r, values, rv) ==
    LET failing == {k \in 1..Len(r.varsN) : ~MatchString(r.varsR[k], values[r.varsN[k]])} IN
    IF ~MatchString(r.regexp, rv) /\ failing # {}
    THEN [err |-> "mismatch",
          rv |-> <<>>,
          bad |-> CHOOSE k \in failing : \A j \in failing : k <= j]
    ELSE [err |-> "", rv |-> rv, bad |-> 0]

\* routeRegexp.url: err is "" and rv the built string, or err is "missing"
\* or "mismatch" and bad is the 1-based index of the variable reported.
url(r, values) ==
    LET n       == Len(r.varsN)
        missing == {k \in 1..n : r.varsN[k] \notin DOMAIN values}
    IN
    IF missing # {}
    THEN [err |-> "missing",
          rv |-> <<>>,
          bad |-> CHOOSE k \in missing : \A j \in missing : k <= j]
    ELSE checkBuilt(r, values,
            Sprintf(r.reverse,
                [k \in 1..n |-> IF r.regexpType = regexpTypeQuery
                                THEN QueryEscape(values[r.varsN[k]])
                                ELSE values[r.varsN[k]]]))

\* extractVars: output with names[i] set to the i-th submatch of input.
RECURSIVE extractVarsFrom(_, _, _, _, _)
extractVarsFrom(input_, matches, names, output_, i) ==
    IF i >= Len(names) THEN output_
    ELSE LET v == Slice(input_, matches[2 * i + 3], matches[2 * i + 4]) IN
         extractVarsFrom(input_, matches, names,
            [k \in DOMAIN output_ \cup {names[i + 1]} |->
                IF k = names[i + 1] THEN v ELSE output_[k]],
            i + 1)

\* A faulty variant: every name set to the whole match.
extractVarsWholeMatch(input_, matches, names, output_) ==
    [k \in DOMAIN output_ \cup {names[i] : i \in 1..Len(names)} |->
        IF \E i \in 1..Len(names) : names[i] = k
        THEN Slice(input_, matches[1], matches[2]) ELSE output_[k]]

extractVars(input_, matches, names, output_) ==
    extractVarsFrom(input_, matches, names, output_, 0)

\* ------------------------------------------------------------------------
\* requests and URLs (packages net/url, net/http and path, by what they do)
\* ------------------------------------------------------------------------

\* Percent-decoding of a path, symbol by symbol.
PathUnescapeSym(c) ==
    CASE c = "%2F"     -> "/"
      [] c = "%252F"   -> "%2F"
      [] c = "%25252F" -> "%252F"
      [] OTHER         -> c

PathUnescape(s) == [k \in 1..Len(s) |-> PathUnescapeSym(s[k])]

\* The default percent-encoding of a decoded path: '/' and unreserved
\* characters stay, a literal "%2F" has its '%' encoded.
PathEscapeSym(c) ==
    CASE c = "%2F"   -> "%252F"
      [] c = "%252F" -> "%25252F"
      [] OTHER       -> c

PathEscape(s) == [k \in 1..Len(s) |-> PathEscapeSym(s[k])]

\* (*URL).setPath: Path is the decoded form; RawPath is kept only when it is
\* not the default encoding of Path.
ParseURL(rawPath) ==
    LET path == PathUnescape(rawPath) IN
    [Scheme |-> "", Host |-> <<>>, Path |-> path,
     RawPath |-> IF PathEscape(path) = rawPath THEN <<>> ELSE rawPath,
     RawQuery |-> <<>>]

\* (*URL).EscapedPath: RawPath when it is an encoding of Path, else the
\* default encoding of Path.
EscapedPath(u) ==
    IF u.RawPath # <<>> /\ PathUnescape(u.RawPath) = u.Path THEN u.RawPath
    ELSE PathEscape(u.Path)

\* (*URL).String of a URL without scheme and host.
URLString(u) ==
    EscapedPath(u) \o (IF u.RawQuery # <<>> THEN <<"?">> \o u.RawQuery ELSE <<>>)

\* The segments of p between its slashes.
RECURSIVE Segments(_, _)
Segments(p, cur) ==
    IF p = <<>> THEN <<cur>>
    ELSE IF Head(p) = "/" THEN <<cur>> \o Segments(Tail(p), <<>>)
    ELSE Segments(Tail(p), Append(cur, Head(p)))

RECURSIVE CleanSegments(_, _)
CleanSegments(segs, stack) ==
    IF segs = <<>> THEN stack
    ELSE LET g == Head(segs) IN
         IF g = <<>> \/ g = <<".">> THEN CleanSegments(Tail(segs), stack)
         ELSE IF g = <<".", ".">>
         THEN CleanSegments(Tail(segs),
                IF stack = <<>> THEN <<>> ELSE SubSeq(stack, 1, Len(stack) - 1))
         ELSE CleanSegments(Tail(segs), Append(stack, g))

RECURSIVE JoinSegments(_)
JoinSegments(stack) ==
    IF stack = <<>> THEN <<>> ELSE <<"/">> \o Head(stack) \o JoinSegments(Tail(stack))

\* path.Clean of a rooted path: empty and "." elements dropped, ".." takes
\* the element before it away (and is dropped at the root).
pathClean(p) ==
    LET stack == CleanSegments(Segments(p, <<>>), <<>>) IN
    IF stack = <<>> THEN <<"/">> ELSE JoinSegments(stack)

\* ------------------------------------------------------------------------
\* mux.go: helpers
\* ------------------------------------------------------------------------

\* A faulty variant: the trailing slash is not put back.
cleanPathTrimmed(p0) ==
    IF p0 = <<>> THEN <<"/">>
    ELSE pathClean(IF p0[1] # "/" THEN <<"/">> \o p0 ELSE p0)

cleanPath(p0) ==
    IF p0 = <<>> THEN <<"/">>
    ELSE LET p  == IF p0[1] # "/" THEN <<"/">> \o p0 ELSE p0
             np == pathClean(p)
         IN IF p[Len(p)] = "/" /\ np # <<"/">> THEN np \o <<"/">> ELSE np

replaceURLPath(u, p) == URLString([u EXCEPT !.Path = p])

\* getHost (regexp.go).
getHost(req) == IF req.URL.Scheme # "" THEN req.URL.Host ELSE req.Host

\* ------------------------------------------------------------------------
\* handlers
\* ------------------------------------------------------------------------

\* An http.Handler is the chain of what runs when it serves, outermost
\* first; the nil handler is the empty chain.
Nil == <<>>

Handler(kind, id) == << [kind |-> kind, id |-> id, loc |-> <<>>] >>

\* http.RedirectHandler(u, http.StatusMovedPermanently).
StatusMovedPermanently == 301

RedirectHandler(u, code) == << [kind |-> "redirect", id |-> code, loc |-> u] >>

\* The Location that the handler of http.RedirectHandler writes for a rooted
\* url without query: http.Redirect cleans the path and keeps its trailing
\* slash.
httpRedirect(u) == cleanPath(u)

\* middleware.Middleware(next) of the i-th registered middleware: a handler
\* that runs the middleware and then next.
Middleware(i, next) == Handler("mw", i) \o next

ErrMethodMismatch == "ErrMethodMismatch"

ErrNotFound == "ErrNotFound"

NoErr == ""

\* The zero RouteMatch; Route is the 1-based index of the route or 0.
ZeroMatch == [Handler |-> Nil, Route |-> 0, Vars |-> <<>>, MatchErr |-> NoErr]

NilRegexp == routeRegexpError("nil")

\* ------------------------------------------------------------------------
\* regexp.go: matching a request
\* ------------------------------------------------------------------------

\* The host with everything from its first ':' removed.
StripPort(host) == LET i == Index(host, ":") IN IF i # -1 THEN Slice(host, 0, i) ELSE host

\* routeRegexp.Match for a host, path or prefix routeRegexp.
routeRegexpMatch(r, req) ==
    IF r.regexpType = regexpTypeHost
    THEN MatchString(r.regexp,
            IF r.wildcardHostPort THEN StripPort(getHost(req)) ELSE getHost(req))
    ELSE MatchString(r.regexp,
            IF r.options.useEncodedPath THEN EscapedPath(req.URL) ELSE req.URL.Path)

\* m with the variables of r extracted from s, as setMatch stores them.
storeVars(r, s, matches, m) ==
    IF Len(matches) > 0 THEN [m EXCEPT !.Vars = extractVars(s, matches, r.varsN, m.Vars)]
    ELSE m

\* setMatch: the host variables.
setHostMatch(v, host, m) ==
    IF v.host.err = "" /\ Len(v.host.varsN) > 0
    THEN storeVars(v.host, host, FindStringSubmatchIndex(v.host.regexp, host), m)
    ELSE m

\* setMatch: the path variables.
setPathMatch(v, path, m) ==
    IF v.path.err = "" /\ Len(v.path.varsN) > 0
    THEN storeVars(v.path, path, FindStringSubmatchIndex(v.path.regexp, path), m)
    ELSE m

\* setMatch: the strict-slash redirect.
setRedirect(v, req, path, m) ==
    LET p1 == HasSuffix(path, "/")
        p2 == HasSuffix(v.path.template, "/")
        p  == IF p1 THEN Slice(req.URL.Path, 0, Len(req.URL.Path) - 1)
              ELSE req.URL.Path \o <<"/">>
    IN
    IF v.path.err = "" /\ v.path.options.strictSlash /\ p1 # p2
    THEN [m EXCEPT !.Handler = RedirectHandler(replaceURLPath(req.URL, p),
                                               StatusMovedPermanently)]
    ELSE m

\* routeRegexpGroup.setMatch for a group v without query regexps; route is
\* the routeConf of the matched route.
setMatch(v, req, m, route) ==
    LET host == IF v.host.wildcardHostPort THEN StripPort(getHost(req)) ELSE getHost(req)
        path == IF route.useEncodedPath THEN EscapedPath(req.URL) ELSE req.URL.Path
    IN setRedirect(v, req, path, setPathMatch(v, path, setHostMatch(v, host, m)))

\* ------------------------------------------------------------------------
\* routes
\* ------------------------------------------------------------------------

\* Memory: the backing arrays of the matcher slices and the routeRegexp
\* objects, each by its address (0 is nil).  A slice is the address of its
\* array and its length; its capacity is the length of the array.
NoMem == [arrays |-> <<>>, regexps |-> <<>>]

NilSlice == [ptr |-> 0, len |-> 0]

\* The elements of the slice s in the memory m.
elems(m, s) == IF s.ptr = 0 THEN <<>> ELSE SubSeq(m.arrays[s.ptr], 1, s.len)

capOf(m, s) == IF s.ptr = 0 THEN 0 ELSE Len(m.arrays[s.ptr])

\* append(s, x) of Go: x is written after the last element when the array
\* has room, else into a new array of twice the capacity.
appendSlice(m, s, x) ==
    IF s.len < capOf(m, s)
    THEN [mem   |-> [m EXCEPT !.arrays[s.ptr][s.len + 1] = x],
          slice |-> [ptr |-> s.ptr, len |-> s.len + 1]]
    ELSE [mem   |-> [m EXCEPT !.arrays =
                        Append(@, elems(m, s) \o <<x>>
                                  \o [k \in 1..(IF s.len = 0 THEN 0 ELSE s.len - 1) |-> 0])],
          slice |-> [ptr |-> Len(m.arrays) + 1, len |-> s.len + 1]]

\* c := make([]matcher, len(s)); copy(c, s): an array of exactly the
\* elements of s; an array of no element has no address of its own.
makeCopy(m, s) ==
    IF s.len = 0 THEN [mem |-> m, slice |-> NilSlice]
    ELSE [mem   |-> [m EXCEPT !.arrays = Append(@, elems(m, s))],
          slice |-> [ptr |-> Len(m.arrays) + 1, len |-> s.len]]

\* copyRouteRegexp in memory: a new object with the fields of the old one.
copyRouteRegexpAt(m, ptr) ==
    IF ptr = 0 THEN [ptr |-> 0, mem |-> m]
    ELSE [ptr |-> Len(m.regexps) + 1,
          mem |-> [m EXCEPT !.regexps = Append(@, m.regexps[ptr])]]

\* A faulty variant: the struct alone is copied, so that the copy shares the
\* matcher array and the routeRegexps of the original.
copyRouteConfShallow(m, r) == [mem |-> m, conf |-> r]

\* copyRouteConf in memory, for a routeConf r whose regexps are pointers and
\* whose matchers are a slice: the flags are copied with the struct, the
\* routeRegexps and the matcher array are allocated anew.
copyRouteConfAt(m, r) ==
    LET p  == copyRouteRegexpAt(m, r.regexp.path)
        h  == copyRouteRegexpAt(p.mem, r.regexp.host)
        ms == makeCopy(h.mem, r.matchers)
    IN [mem  |-> ms.mem,
        conf |-> [r EXCEPT !.regexp = [path |-> p.ptr, host |-> h.ptr],
                           !.matchers = ms.slice]]

\* The routeConf of a new Router: every flag unset, no regexps, no matchers.
ZeroRouteConf ==
    [strictSlash |-> FALSE,
     useEncodedPath |-> FALSE,
     strictQueryParamSep |-> FALSE,
     regexp |-> [path |-> NilRegexp, host |-> NilRegexp],
     matchers |-> <<>>,
     skipClean |-> FALSE,
     omitRouteFromContext |-> FALSE,
     omitRouterFromContext |-> FALSE]

copyRouteRegexp(r) == r

\* copyRouteConf: values of the model are immutable, so the copy of each
\* regexp and of the matcher list is the value itself.
copyRouteConf(r) ==
    [r EXCEPT !.regexp = [path |-> IF r.regexp.path.err # "nil"
                                   THEN copyRouteRegexp(r.regexp.path) ELSE r.regexp.path,
                          host |-> IF r.regexp.host.err # "nil"
                                   THEN copyRouteRegexp(r.regexp.host) ELSE r.regexp.host],
              !.matchers = [k \in 1..Len(r.matchers) |-> r.matchers[k]]]

\* The Route that Router.NewRoute creates from the router's routeConf.
newRoute(conf) == [err |-> "", conf |-> copyRouteConf(conf), handler |-> Nil]

\* Route.Path(tpl) once the template is compiled to rr.
addRegexpMatcher(route, rr) ==
    IF route.err # "" THEN route
    ELSE IF rr.err # "" THEN [route EXCEPT !.err = rr.err]
    ELSE [route EXCEPT !.conf.regexp.path = rr,
                       !.conf.matchers = Append(@, [kind |-> "path", methods |-> {}])]

\* Route.Path(tpl): compiles the template with the route's own options and
\* adds the path matcher.
routePath(route, tpl) ==
    addRegexpMatcher(route,
        newRouteRegexp(tpl, regexpTypePath,
            [strictSlash |-> route.conf.strictSlash,
             useEncodedPath |-> route.conf.useEncodedPath,
             strictQueryParamSep |-> route.conf.strictQueryParamSep]))

\* Route.Methods(methods...): adds a method matcher.
routeMethods(route, methods) ==
    IF route.err # "" THEN route
    ELSE [route EXCEPT !.conf.matchers = Append(@, [kind |-> "method", methods |-> methods])]

\* Route.Handler(handler).
routeHandler(route, handler) ==
    IF route.err # "" THEN route ELSE [route EXCEPT !.handler = handler]

\* The matchers of Route.Match, in order, from the k-th: a failed method
\* matcher is remembered and the others are still tried; any other failed
\* matcher ends the attempt.
RECURSIVE routeMatchers(_, _, _, _)
routeMatchers(route, req, k, matchErr) ==
    IF k > Len(route.conf.matchers) THEN [ok |-> TRUE, matchErr |-> matchErr]
    ELSE LET mt == route.conf.matchers[k] IN
         IF mt.kind = "method"
         THEN routeMatchers(route, req, k + 1,
                IF req.Method \in mt.methods THEN matchErr ELSE ErrMethodMismatch)
         ELSE IF routeRegexpMatch(route.conf.regexp.path, req)
         THEN routeMatchers(route, req, k + 1, matchErr)
         ELSE [ok |-> FALSE, matchErr |-> NoErr]

\* Route.Match once its matchers gave ms.
routeMatchWith(route, k, req, match, ms) ==
    IF ~ms.ok
    THEN [ok |-> FALSE,
          match |-> IF match.MatchErr = ErrNotFound
                    THEN [match EXCEPT !.MatchErr = NoErr] ELSE match]
    ELSE IF ms.matchErr # NoErr
    THEN [ok |-> FALSE, match |-> [match EXCEPT !.MatchErr = ms.matchErr]]
    ELSE LET m1 == IF match.MatchErr = ErrMethodMismatch /\ route.handler # Nil
                   THEN [match EXCEPT !.MatchErr = NoErr, !.Handler = route.handler]
                   ELSE match
             m2 == [m1 EXCEPT !.Route = IF @ = 0 THEN k ELSE @,
                              !.Handler = IF @ = Nil THEN route.handler ELSE @]
         IN [ok |-> TRUE, match |-> setMatch(route.conf.regexp, req, m2, route.conf)]

\* Route.Match of the k-th route: [ok, match].
routeMatch(route, k, req, match) ==
    IF route.err # "" THEN [ok |-> FALSE, match |-> match]
    ELSE routeMatchWith(route, k, req, match, routeMatchers(route, req, 1, NoErr))

\* ------------------------------------------------------------------------
\* mux.go: Router.Match and Router.ServeHTTP
\* ------------------------------------------------------------------------

\* A faulty variant: the middlewares applied in registration order, so that
\* the last registered ends up outermost.
RECURSIVE buildChainAscending(_, _, _)
buildChainAscending(mws, i, handler) ==
    IF i < 0 THEN handler
    ELSE Middleware(mws[i + 1], buildChainAscending(mws, i - 1, handler))

\* The middleware loop of Router.Match: i runs from len-1 down to 0 and
\* each step wraps the handler built so far.
RECURSIVE buildChain(_, _, _)
buildChain(mws, i, handler) ==
    IF i < 0 THEN handler
    ELSE buildChain(mws, i - 1, Middleware(mws[i + 1], handler))

\* A faulty variant: the not-found handler tried before the method mismatch.
noRouteMatchNotFoundFirst(rt, match) ==
    IF rt.NotFoundHandler # Nil
    THEN [ok |-> TRUE,
          match |-> [match EXCEPT !.Handler = rt.NotFoundHandler, !.MatchErr = ErrNotFound]]
    ELSE IF match.MatchErr = ErrMethodMismatch /\ rt.MethodNotAllowedHandler # Nil
    THEN [ok |-> TRUE, match |-> [match EXCEPT !.Handler = rt.MethodNotAllowedHandler]]
    ELSE IF match.MatchErr = ErrMethodMismatch THEN [ok |-> FALSE, match |-> match]
    ELSE [ok |-> FALSE, match |-> [match EXCEPT !.MatchErr = ErrNotFound]]

\* A faulty variant: a method mismatch without a method-not-allowed handler falls
\* through to the not-found branch.
noRouteMatchFallThrough(rt, match) ==
    IF match.MatchErr = ErrMethodMismatch /\ rt.MethodNotAllowedHandler # Nil
    THEN [ok |-> TRUE, match |-> [match EXCEPT !.Handler = rt.MethodNotAllowedHandler]]
    ELSE IF rt.NotFoundHandler # Nil
    THEN [ok |-> TRUE,
          match |-> [match EXCEPT !.Handler = rt.NotFoundHandler, !.MatchErr = ErrNotFound]]
    ELSE [ok |-> FALSE, match |-> [match EXCEPT !.MatchErr = ErrNotFound]]

\* A faulty variant: the fallback handlers wrapped in the middleware chain.
noRouteMatchWrapped(rt, match) ==
    LET wrap(h) == buildChain(rt.middlewares, Len(rt.middlewares) - 1, h) IN
    IF match.MatchErr = ErrMethodMismatch
    THEN IF rt.MethodNotAllowedHandler # Nil
         THEN [ok |-> TRUE,
               match |-> [match EXCEPT !.Handler = wrap(rt.MethodNotAllowedHandler)]]
         ELSE [ok |-> FALSE, match |-> match]
    ELSE IF rt.NotFoundHandler # Nil
    THEN [ok |-> TRUE,
          match |-> [match EXCEPT !.Handler = wrap(rt.NotFoundHandler),
                                  !.MatchErr = ErrNotFound]]
    ELSE [ok |-> FALSE, match |-> [match EXCEPT !.MatchErr = ErrNotFound]]

\* A faulty variant: false is returned whenever no route matched, the
\* fallback handler assigned all the same.
noRouteMatchFalse(rt, match) ==
    IF match.MatchErr = ErrMethodMismatch
    THEN [ok |-> FALSE,
          match |-> IF rt.MethodNotAllowedHandler # Nil
                    THEN [match EXCEPT !.Handler = rt.MethodNotAllowedHandler] ELSE match]
    ELSE [ok |-> FALSE,
          match |-> IF rt.NotFoundHandler # Nil
                    THEN [match EXCEPT !.Handler = rt.NotFoundHandler, !.MatchErr = ErrNotFound]
                    ELSE [match EXCEPT !.MatchErr = ErrNotFound]]

\* What Router.Match does once its loop found no route.
noRouteMatch(rt, match) ==
    IF match.MatchErr = ErrMethodMismatch
    THEN IF rt.MethodNotAllowedHandler # Nil
         THEN [ok |-> TRUE, match |-> [match EXCEPT !.Handler = rt.MethodNotAllowedHandler]]
         ELSE [ok |-> FALSE, match |-> match]
    ELSE IF rt.NotFoundHandler # Nil
    THEN [ok |-> TRUE,
          match |-> [match EXCEPT !.Handler = rt.NotFoundHandler, !.MatchErr = ErrNotFound]]
    ELSE [ok |-> FALSE, match |-> [match EXCEPT !.MatchErr = ErrNotFound]]

\* What Router.Match does with the route whose Route.Match succeeded.
routeMatched(rt, match) ==
    IF match.MatchErr = NoErr
    THEN [match EXCEPT !.Handler = buildChain(rt.middlewares, Len(rt.middlewares) - 1, @)]
    ELSE match

\* The loop of Router.Match over r.routes from the k-th route, whose
\* Route.Match gave res.
RECURSIVE routerMatchFrom(_, _, _, _), routerMatchStep(_, _, _, _)
routerMatchStep(rt, req, k, res) ==
    IF res.ok THEN [ok |-> TRUE, match |-> routeMatched(rt, res.match)]
    ELSE routerMatchFrom(rt, req, res.match, k + 1)

routerMatchFrom(rt, req, match, k) ==
    IF k > Len(rt.routes) THEN noRouteMatch(rt, match)
    ELSE routerMatchStep(rt, req, k, routeMatch(rt.routes[k], k, req, match))

\* A faulty variant: the routes tried from the last registered to the first.
routerMatchReversed(rt, req, match) ==
    routerMatchFrom([rt EXCEPT !.routes = [i \in 1..Len(@) |-> @[Len(@) + 1 - i]]],
                    req, match, 1)

\* Router.Match(req, &match): [ok, match].
routerMatch(rt, req, match) == routerMatchFrom(rt, req, match, 1)

StatusNotFound == 404

StatusMethodNotAllowed == 405

\* http.NotFoundHandler() and methodNotAllowedHandler().
DefaultNotFoundHandler == Handler("default404", StatusNotFound)

methodNotAllowedHandler == Handler("default405", StatusMethodNotAllowed)

\* The request context ServeHTTP hands to the handler: route is the index
\* of the Route stored under routeKey (0: none), router tells whether the
\* Router is stored under routerKey, hasVars and vars are the varsKey entry.
NoContext == [route |-> 0, router |-> FALSE, hasVars |-> FALSE, vars |-> <<>>]

\* The request objects of one call of ServeHTTP are the contexts they hold:
\* the first is the object the caller passed, the last the one req points to.
CallerRequest == <<NoContext>>

\* A faulty variant: the context is stored into the request itself.
WithContextInPlace(objs, ctx) == [objs EXCEPT ![Len(objs)] = ctx]

\* req = req.WithContext(ctx): a shallow copy of the request, with ctx.
WithContext(objs, ctx) == Append(objs, ctx)

requestWithVars(objs, vars_) ==
    IF vars_ = <<>> THEN objs
    ELSE WithContext(objs, [objs[Len(objs)] EXCEPT !.hasVars = TRUE, !.vars = vars_])

requestWithRouteAndVars(objs, route, vars_) ==
    IF vars_ # <<>>
    THEN WithContext(objs, [objs[Len(objs)] EXCEPT !.route = route, !.hasVars = TRUE,
                                                   !.vars = vars_])
    ELSE WithContext(objs, [objs[Len(objs)] EXCEPT !.route = route])

requestWithRouter(objs) == WithContext(objs, [objs[Len(objs)] EXCEPT !.router = TRUE])

\* mux.Vars(r), mux.CurrentRoute(r) (0: nil) and whether mux.CurrentRouter(r)
\* is the Router, of a request with the context ctx.
Vars(ctx) == IF ctx.hasVars THEN ctx.vars ELSE <<>>

CurrentRoute(ctx) == ctx.route

CurrentRouter(ctx) == ctx.router

\* handler.ServeHTTP(w, req): the chain runs in order and its last element
\* writes the response.  The status of the library's own handlers is their
\* id; what an application's handler writes is its own business (0).  ctx is
\* the context of the request the handler is given, orig that of the request
\* the caller passed, as it is when the handler runs.
serve(handler, objs, matchCalled) ==
    LET last == handler[Len(handler)] IN
    [ctx |-> objs[Len(objs)],
     matchCalled |-> matchCalled,
     orig |-> objs[1],
     status |-> IF last.kind \in {"redirect", "default404", "default405"} THEN last.id ELSE 0,
     location |-> IF last.kind = "redirect" THEN httpRedirect(last.loc) ELSE last.loc,
     ran |-> handler]

\* The path Router.ServeHTTP canonicalizes.
servePath(rt, req) ==
    IF rt.routeConf.useEncodedPath THEN EscapedPath(req.URL) ELSE req.URL.Path

\* Whether Router.ServeHTTP answers with the canonicalization redirect.
cleanRedirects(rt, req) ==
    ~rt.routeConf.skipClean /\ cleanPath(servePath(rt, req)) # servePath(rt, req)

\* Router.ServeHTTP from the call of r.Match, which gave res.
dispatchWith(rt, res) ==
    LET match   == res.match
        handler == IF res.ok THEN match.Handler ELSE Nil
        req1    == IF rt.routeConf.omitRouteFromContext
                   THEN requestWithVars(CallerRequest, match.Vars)
                   ELSE requestWithRouteAndVars(CallerRequest, match.Route, match.Vars)
        req2    == IF ~rt.routeConf.omitRouterFromContext THEN requestWithRouter(req1)
                   ELSE req1
        req     == IF res.ok /\ handler # Nil THEN req2 ELSE CallerRequest
        h2      == IF handler = Nil /\ match.MatchErr = ErrMethodMismatch
                   THEN methodNotAllowedHandler ELSE handler
        h3      == IF h2 = Nil THEN DefaultNotFoundHandler ELSE h2
    IN [ok |-> res.ok, match |-> match, resp |-> serve(h3, req, TRUE)]

\* Router.ServeHTTP after the canonicalization step: [ok, match, resp].
dispatch(rt, req) == dispatchWith(rt, routerMatch(rt, req, ZeroMatch))

\* Router.ServeHTTP(w, req): [ok, match, resp].
serveHTTP(rt, req) ==
    IF cleanRedirects(rt, req)
    THEN [ok |-> FALSE, match |-> ZeroMatch,
          resp |-> [ctx |-> NoContext,
                    matchCalled |-> FALSE,
                    orig |-> NoContext,
                    status |-> StatusMovedPermanently,
                    location |-> replaceURLPath(req.URL, cleanPath(servePath(rt, req))),
                    ran |-> Nil]]
    ELSE dispatch(rt, req)

\* ------------------------------------------------------------------------
\* the state: one Router, the last request served and its outcome
\* ------------------------------------------------------------------------

VARIABLES
    routes,                   \* Router.routes
    middlewares,              \* Router.middlewares, by registration number
    NotFoundHandler,          \* Router.NotFoundHandler
    MethodNotAllowedHandler,  \* Router.MethodNotAllowedHandler
    routeConf,                \* Router.routeConf
    mem,                      \* the matcher arrays and routeRegexps allocated, by address
    called,                   \* the last call made: "", "Match" or "ServeHTTP"
    request,                  \* its *http.Request
    matched,                  \* what Router.Match returned in it
    match,                    \* its RouteMatch
    resp,                     \* the response ServeHTTP wrote
    walking,                  \* the progress of Router.Walk
    calls,                    \* the calls of Match and ServeHTTP that run concurrently
    input,                    \* the argument of the last pure function applied
    output                    \* and its result

routerVars == <<routes, middlewares, NotFoundHandler, MethodNotAllowedHandler, routeConf, mem>>

callVars == <<called, request, matched, match, resp, walking, calls>>

pureVars == <<input, output>>

vars == <<routerVars, callVars, pureVars>>

\* The Router as the operators above take it.
router ==
    [NotFoundHandler |-> NotFoundHandler,
     MethodNotAllowedHandler |-> MethodNotAllowedHandler,
     middlewares |-> middlewares,
     routes |-> routes,
     routeConf |-> routeConf]

MaxRoutes == 2

MaxMiddlewares == 2

Methods == {"GET", "POST"}

NoResponse == [ctx |-> NoContext,
               matchCalled |-> FALSE,
               orig |-> NoContext,
               status |-> 0,
               location |-> <<>>,
               ran |-> Nil]

Request(method, rawPath) == [Host |-> <<>>, URL |-> ParseURL(rawPath), Method |-> method]

NoRequest == Request("", <<>>)

MaxCalls == 2

\* A call that has not begun: pc is where the call is, res what Router.Match
\* has in its RouteMatch and returns, k the route its loop is at.
IdleCall == [k |-> 0,
             req |-> NoRequest,
             res |-> [ok |-> FALSE, match |-> ZeroMatch],
             resp |-> NoResponse,
             pc |-> "idle",
             op |-> ""]

NoCalls == [c \in 1..MaxCalls |-> IdleCall]

\* No Walk in progress: no frame, no call of walkFn made, no error.
NoWalk == [stack |-> <<>>, err |-> "", visited |-> <<>>, done |-> FALSE]

\* NewRouter(), before any call.
InitRouter ==
    /\ routes = <<>>
    /\ middlewares = <<>>
    /\ NotFoundHandler = Nil
    /\ MethodNotAllowedHandler = Nil
    /\ routeConf = ZeroRouteConf
    /\ mem = NoMem
    /\ called = ""
    /\ request = NoRequest
    /\ matched = FALSE
    /\ match = ZeroMatch
    /\ resp = NoResponse
    /\ walking = NoWalk
    /\ calls = NoCalls

\* Registration happens before the first request is served.
Registering == called = ""

\* The route r appended to Router.routes.
Register(r) ==
    /\ routes' = Append(routes, r)
    /\ UNCHANGED <<middlewares, NotFoundHandler, MethodNotAllowedHandler, routeConf,
                   mem, callVars, pureVars>>

\* r.Handle(tpl, handler).Methods(methods...), where r.Handle is
\* r.NewRoute().Path(tpl).Handler(handler); the handler of the k-th route is
\* named by k.
HandleMethods(tpl, methods) ==
    /\ Registering
    /\ Len(routes) < MaxRoutes
    /\ Register(routeMethods(routeHandler(routePath(newRoute(routeConf), tpl),
                                          Handler("route", Len(routes) + 1)),
                             methods))

\* r.Handle(tpl, handler).
Handle(tpl) ==
    /\ Registering
    /\ Len(routes) < MaxRoutes
    /\ Register(routeHandler(routePath(newRoute(routeConf), tpl),
                             Handler("route", Len(routes) + 1)))

\* r.Use(mw): the middleware is named by its registration number.
Use ==
    /\ Registering
    /\ Len(middlewares) < MaxMiddlewares
    /\ middlewares' = Append(middlewares, Len(middlewares) + 1)
    /\ UNCHANGED <<routes, NotFoundHandler, MethodNotAllowedHandler, routeConf,
                   mem, callVars, pureVars>>

SetNotFoundHandler ==
    /\ Registering
    /\ NotFoundHandler = Nil
    /\ NotFoundHandler' = Handler("nf", 0)
    /\ UNCHANGED <<routes, middlewares, MethodNotAllowedHandler, routeConf,
                   mem, callVars, pureVars>>

SetMethodNotAllowedHandler ==
    /\ Registering
    /\ MethodNotAllowedHandler = Nil
    /\ MethodNotAllowedHandler' = Handler("mna", 0)
    /\ UNCHANGED <<routes, middlewares, NotFoundHandler, routeConf, mem, callVars, pureVars>>

StrictSlash(value) ==
    /\ Registering
    /\ routeConf' = [routeConf EXCEPT !.strictSlash = value]
    /\ UNCHANGED <<routes, middlewares, NotFoundHandler, MethodNotAllowedHandler,
                   mem, callVars, pureVars>>

SkipClean(value) ==
    /\ Registering
    /\ routeConf' = [routeConf EXCEPT !.skipClean = value]
    /\ UNCHANGED <<routes, middlewares, NotFoundHandler, MethodNotAllowedHandler,
                   mem, callVars, pureVars>>

UseEncodedPath ==
    /\ Registering
    /\ routeConf' = [routeConf EXCEPT !.useEncodedPath = TRUE]
    /\ UNCHANGED <<routes, middlewares, NotFoundHandler, MethodNotAllowedHandler,
                   mem, callVars, pureVars>>

\* The outcome res of the call op on req, recorded.
Record(op, req, res) ==
    /\ called' = op
    /\ request' = req
    /\ matched' = res.ok
    /\ match' = res.match
    /\ resp' = res.resp
    /\ UNCHANGED <<routerVars, pureVars, walking, calls>>

matchOnly(res) == [ok |-> res.ok, match |-> res.match, resp |-> NoResponse]

\* r.Match(req, &match) on a zero RouteMatch.
Match(req) == Record("Match", req, matchOnly(routerMatch(router, req, ZeroMatch)))

\* r.ServeHTTP(w, req).
ServeHTTP(req) == Record("ServeHTTP", req, serveHTTP(router, req))

\* Path templates and request paths of the dispatch specification.
DispatchTemplates == { <<"/", "a">>, <<"/", "{", "v", "}">> }

DispatchMethods == { {"GET"} }

DispatchPaths == { <<"/", "a">>, <<"/", "b">> }

Init ==
    /\ InitRouter
    /\ input = <<>>
    /\ output = <<>>

Next ==
    \/ \E tpl \in DispatchTemplates : Handle(tpl)
    \/ \E tpl \in DispatchTemplates, ms \in DispatchMethods : HandleMethods(tpl, ms)
    \/ Use
    \/ SetNotFoundHandler
    \/ SetMethodNotAllowedHandler
    \/ \E m \in Methods, p \in DispatchPaths : Match(Request(m, p))
    \/ \E m \in Methods, p \in DispatchPaths : ServeHTTP(Request(m, p))

\* Registration and dispatch on one Router.
Spec == Init /\ [][Next]_vars

\* Path templates and request paths of the serving specification.
ServeTemplates == { <<"/", "a">>, <<"/", "a", "/">>, <<"/", "{", "v", "}", "/">> }

ServePaths ==
    { <<"/", "a">>, <<"/", "a", "/">>, <<"/", "/", "a">>, <<"/", "a", "/", ".">>,
      <<"/", "a", "%2F">>, <<"/", "/", "a", "%2F">>, <<"/", "b", "/", "a">> }

NextServe ==
    \/ \E v \in BOOLEAN : StrictSlash(v)
    \/ \E v \in BOOLEAN : SkipClean(v)
    \/ UseEncodedPath
    \/ \E tpl \in ServeTemplates : Handle(tpl)
    \/ \E p \in ServePaths : ServeHTTP(Request("GET", p))

\* Configuration of the Router's flags, registration and ServeHTTP.
SpecServe == Init /\ [][NextServe]_vars

\* ------------------------------------------------------------------------
\* properties of the dispatch
\* ------------------------------------------------------------------------

Last(h) == h[Len(h)]

\* The last call ran Router.Match.
MatchRan == called = "Match" \/ (called = "ServeHTTP" /\ resp.matchCalled)

\* Route.Match of the k-th route alone succeeds on the last request.
RouteMatches(k) == routeMatch(routes[k], k, request, ZeroMatch).ok

\* The k-th route fails on the last request, and only on its method.
OnlyMethodFails(k) ==
    routeMatchers(routes[k], request, 1, NoErr) = [ok |-> TRUE, matchErr |-> ErrMethodMismatch]

NoRouteMatches == \A k \in 1..Len(routes) : ~RouteMatches(k)

MethodMismatchRecorded == \E k \in 1..Len(routes) : OnlyMethodFails(k)

MiddlewareHandler(i) == [kind |-> "mw", id |-> middlewares[i], loc |-> <<>>]

\* h is the middleware chain applied to a handler, first registered
\* middleware outermost.
WrappedFirstOutermost(h) ==
    /\ Len(h) = Len(middlewares) + 1
    /\ \A i \in 1..Len(middlewares) : h[i] = MiddlewareHandler(i)
    /\ Last(h).kind # "mw"

\* h is the middleware chain applied to a handler, last registered
\* middleware outermost.
WrappedLastOutermost(h) ==
    /\ Len(h) = Len(middlewares) + 1
    /\ \A i \in 1..Len(middlewares) : h[i] = MiddlewareHandler(Len(middlewares) + 1 - i)
    /\ Last(h).kind # "mw"

\* C1: Router.Match resolves to the first registered route whose Route.Match
\* succeeds: whenever the k-th route matches the request and no earlier route
\* does, the resolved Route is the k-th and the resolved handler ends in what
\* the k-th route resolves to, whatever later routes match as well.
C1_FirstRegisteredWins ==
    MatchRan =>
        \A k \in 1..Len(routes) :
            (RouteMatches(k) /\ \A j \in 1..(k - 1) : ~RouteMatches(j)) =>
                /\ matched
                /\ match.Route = k
                /\ Last(match.Handler)
                     = Last(routeMatch(routes[k], k, request, ZeroMatch).match.Handler)
                /\ Last(match.Handler) = Last(Handler("route", k))

\* Two routes match the request, the first registered is the less specific
\* one (a variable against a literal), and it was resolved.
C1_Witness ==
    /\ called = "Match"
    /\ Len(routes) = 2
    /\ RouteMatches(1) /\ RouteMatches(2)
    /\ routes[1].conf.regexp.path.varsN # <<>>
    /\ routes[2].conf.regexp.path.varsN = <<>>
    /\ matched /\ match.Route = 1

\* C2: with no route matching, a method mismatch recorded and both fallback
\* handlers configured, Router.Match resolves to the method-not-allowed
\* handler and the failure kind stays ErrMethodMismatch.
C2_MethodNotAllowedPrecedes ==
    (/\ MatchRan
     /\ NoRouteMatches
     /\ MethodMismatchRecorded
     /\ MethodNotAllowedHandler # Nil
     /\ NotFoundHandler # Nil) =>
        /\ matched
        /\ match.Handler = MethodNotAllowedHandler
        /\ match.Handler # NotFoundHandler
        /\ match.MatchErr = ErrMethodMismatch

C2_Witness ==
    /\ called = "Match"
    /\ NoRouteMatches
    /\ MethodMismatchRecorded
    /\ MethodNotAllowedHandler # Nil
    /\ NotFoundHandler # Nil
    /\ match.Handler = MethodNotAllowedHandler

\* C3 as claimed: with no route matching, a method mismatch recorded and no
\* method-not-allowed handler, a configured not-found handler is the
\* resolved handler and the failure kind is ErrNotFound.
C3_Original ==
    (/\ MatchRan
     /\ NoRouteMatches
     /\ MethodMismatchRecorded
     /\ MethodNotAllowedHandler = Nil
     /\ NotFoundHandler # Nil) =>
        /\ match.Handler = NotFoundHandler
        /\ match.MatchErr = ErrNotFound

\* C3: with no route matching, a method mismatch recorded and no
\* method-not-allowed handler, Router.Match returns false with no handler
\* and the failure kind ErrMethodMismatch, whether or not a not-found handler
\* is configured, and ServeHTTP answers with the default 405 handler; the
\* not-found handler is used, with the failure kind ErrNotFound, only when no
\* method mismatch was recorded, and without it there is then no handler.
C3_MismatchWithoutHandler ==
    (MatchRan /\ NoRouteMatches) =>
        /\ (MethodMismatchRecorded /\ MethodNotAllowedHandler = Nil) =>
              /\ ~matched
              /\ match.Handler = Nil
              /\ match.MatchErr = ErrMethodMismatch
              /\ called = "ServeHTTP" =>
                    (resp.ran = methodNotAllowedHandler /\ resp.status = StatusMethodNotAllowed)
        /\ (~MethodMismatchRecorded /\ NotFoundHandler # Nil) =>
              /\ matched
              /\ match.Handler = NotFoundHandler
              /\ match.MatchErr = ErrNotFound
        /\ (~MethodMismatchRecorded /\ NotFoundHandler = Nil) =>
              /\ ~matched
              /\ match.Handler = Nil
              /\ match.MatchErr = ErrNotFound

C3_Witness ==
    /\ called = "ServeHTTP"
    /\ NoRouteMatches
    /\ MethodMismatchRecorded
    /\ MethodNotAllowedHandler = Nil
    /\ NotFoundHandler # Nil
    /\ resp.status = StatusMethodNotAllowed

\* C4 as claimed: the handler of a matched route is wrapped with the last
\* registered middleware outermost.
C4_Original ==
    (MatchRan /\ matched /\ match.MatchErr = NoErr) => WrappedLastOutermost(match.Handler)

\* C4: the handler of a matched route is wrapped so that the first
\* registered middleware is outermost: on a request m1 runs first, then m2,
\* ..., then mn, then the route's handler.
C4_FirstRegisteredOutermost ==
    (MatchRan /\ matched /\ match.MatchErr = NoErr) =>
        /\ WrappedFirstOutermost(match.Handler)
        /\ called = "ServeHTTP" => resp.ran = match.Handler

C4_Witness ==
    /\ called = "ServeHTTP"
    /\ matched /\ match.MatchErr = NoErr
    /\ Len(middlewares) = 2
    /\ resp.ran = <<MiddlewareHandler(1), MiddlewareHandler(2)>> \o Handler("route", match.Route)

\* C5 as claimed: every resolved handler is wrapped in the middleware chain,
\* the fallback handlers included.
C5_Original ==
    (MatchRan /\ matched) => Len(match.Handler) = Len(middlewares) + 1

\* C5: the handler of a matched route is wrapped in the middleware chain;
\* the method-not-allowed handler and the not-found handler chosen when no
\* route matches are resolved as configured, without the middlewares.
C5_OnlyRouteHandlersWrapped ==
    (MatchRan /\ matched) =>
        /\ match.MatchErr = NoErr => WrappedFirstOutermost(match.Handler)
        /\ match.MatchErr = ErrMethodMismatch => match.Handler = MethodNotAllowedHandler
        /\ match.MatchErr = ErrNotFound => match.Handler = NotFoundHandler
        /\ match.MatchErr # NoErr => \A i \in 1..Len(match.Handler) : match.Handler[i].kind # "mw"

C5_Witness ==
    /\ called = "Match"
    /\ matched
    /\ match.MatchErr = ErrNotFound
    /\ Len(middlewares) > 0
    /\ match.Handler = NotFoundHandler

\* ------------------------------------------------------------------------
\* properties of ServeHTTP
\* ------------------------------------------------------------------------

\* The path of the last request that ServeHTTP canonicalizes.
CleanedPath == IF routeConf.useEncodedPath THEN EscapedPath(request.URL) ELSE request.URL.Path

\* The path that ServeHTTP canonicalizes in a request for the Location loc.
RequestedPath(loc) ==
    IF routeConf.useEncodedPath THEN EscapedPath(ParseURL(loc)) ELSE ParseURL(loc).Path

\* C6: ServeHTTP with skipClean unset and a path that cleanPath changes
\* answers 301 with a Location that is the canonical path (a request for it
\* has the canonical path), calls Router.Match not at all and runs no
\* handler; with skipClean set or a canonical path, Router.Match is called
\* and the response is that of the handler it led to.
C6_CleanRedirect ==
    called = "ServeHTTP" =>
        IF ~routeConf.skipClean /\ cleanPath(CleanedPath) # CleanedPath
        THEN /\ resp.status = StatusMovedPermanently
             /\ RequestedPath(resp.location) = cleanPath(CleanedPath)
             /\ ~resp.matchCalled
             /\ resp.ran = Nil
             /\ match = ZeroMatch
        ELSE /\ resp.matchCalled
             /\ resp.ran # Nil
             /\ resp.ran = (IF matched THEN match.Handler
                            ELSE IF match.MatchErr = ErrMethodMismatch
                            THEN methodNotAllowedHandler ELSE DefaultNotFoundHandler)

\* What holds of the canonicalization redirect in every router: the Location
\* is the path-escaped canonical path.  In a router without useEncodedPath
\* that is the canonical path itself.
CleanRedirectEscaped ==
    /\ (called = "ServeHTTP" /\ ~resp.matchCalled) =>
          resp.location = PathEscape(cleanPath(CleanedPath))
    /\ ~routeConf.useEncodedPath => C6_CleanRedirect

\* useEncodedPath set, request //a%2F: the Location is /a%252F.
CleanRedirectEscapedTwice ==
    /\ called = "ServeHTTP"
    /\ routeConf.useEncodedPath /\ ~routeConf.skipClean
    /\ request.URL.RawPath = <<"/", "/", "a", "%2F">>
    /\ cleanPath(CleanedPath) = <<"/", "a", "%2F">>
    /\ resp.location = <<"/", "a", "%252F">>

\* The path with its trailing slash removed, or added when it has none.
ToggleSlash(path) ==
    IF HasSuffix(path, "/") THEN SubSeq(path, 1, Len(path) - 1) ELSE path \o <<"/">>

\* s matches the template exactly, trailing slash included.
MatchesExactly(tpl, s) ==
    MatchString(newRouteRegexp(tpl, regexpTypePath,
                    [strictSlash |-> FALSE, useEncodedPath |-> FALSE,
                     strictQueryParamSep |-> FALSE]).regexp, s)

\* The path of the last request as the k-th route matches it.
RoutePath(k) ==
    IF routes[k].conf.useEncodedPath THEN EscapedPath(request.URL) ELSE request.URL.Path

\* The k-th route is the first that can match the last request.
Reached(k) == \A j \in 1..(k - 1) : ~RouteMatches(j)

\* The path of a request for the Location loc as the k-th route matches it.
RoutePathOf(k, loc) ==
    IF routes[k].conf.useEncodedPath THEN EscapedPath(ParseURL(loc)) ELSE ParseURL(loc).Path

\* C7: a route whose path was compiled with strictSlash matches a request
\* path that differs from its template only by the trailing slash, and then
\* the response is a 301 redirect to the request path with the slash added
\* or removed as the template has it; when the request path matches the
\* template as it is, the registered handler is kept.  A route compiled
\* without strictSlash does not match a request path whose trailing slash
\* differs from its template's.
C7_StrictSlash ==
    MatchRan =>
        \A k \in 1..Len(routes) :
            LET r == routes[k].conf.regexp.path IN
            Reached(k) =>
                /\ (r.options.strictSlash /\ ~MatchesExactly(r.template, RoutePath(k))
                    /\ MatchesExactly(r.template, ToggleSlash(RoutePath(k)))) =>
                        /\ matched /\ match.Route = k
                        /\ Last(match.Handler).kind = "redirect"
                        /\ resp.status = StatusMovedPermanently
                        /\ RoutePathOf(k, resp.location) = ToggleSlash(RoutePath(k))
                /\ (r.options.strictSlash /\ MatchesExactly(r.template, RoutePath(k))) =>
                        /\ matched /\ match.Route = k
                        /\ match.Handler = Handler("route", k)
                /\ (~r.options.strictSlash
                    /\ HasSuffix(r.template, "/") # HasSuffix(RoutePath(k), "/")) =>
                        ~(matched /\ match.Route = k)

\* What holds of the strict-slash redirect in every route: the Location is
\* the cleaned, path-escaped URL.Path of the request with the slash added or
\* removed.  For a route without useEncodedPath that is C7.
StrictSlashDecoded ==
    /\ (MatchRan /\ matched /\ Last(match.Handler).kind = "redirect") =>
          \/ resp.location = PathEscape(ToggleSlash(request.URL.Path))
          \/ /\ routes[match.Route].conf.useEncodedPath
             /\ resp.location = cleanPath(PathEscape(request.URL.Path \o <<"/">>))
    /\ (\A k \in 1..Len(routes) : ~routes[k].conf.useEncodedPath) => C7_StrictSlash

\* useEncodedPath and strictSlash set, template /{v}/, request /a%2F: the
\* Location is /a/.
StrictSlashEncoded ==
    /\ called = "ServeHTTP"
    /\ Len(routes) = 1
    /\ routes[1].conf.useEncodedPath
    /\ routes[1].conf.regexp.path.options.strictSlash
    /\ routes[1].conf.regexp.path.template = <<"/", "{", "v", "}", "/">>
    /\ request.URL.RawPath = <<"/", "a", "%2F">>
    /\ match.Vars = (<<"v">> :> <<"a", "%2F">>)
    /\ match.Handler = RedirectHandler(<<"/", "a", "/", "/">>, StatusMovedPermanently)
    /\ resp.location = <<"/", "a", "/">>

\* Template /a/ compiled with strictSlash, request /a: redirected to /a/.
C7_Witness ==
    /\ called = "ServeHTTP"
    /\ Len(routes) > 0
    /\ routes[1].conf.regexp.path.options.strictSlash
    /\ routes[1].conf.regexp.path.template = <<"/", "a", "/">>
    /\ request.URL.Path = <<"/", "a">>
    /\ resp.status = StatusMovedPermanently
    /\ resp.location = <<"/", "a", "/">>
    /\ resp.matchCalled

\* Template /a compiled without strictSlash, request /a/: no match.
C7_WitnessNoStrictSlash ==
    /\ called = "ServeHTTP"
    /\ Len(routes) = 1
    /\ ~routes[1].conf.regexp.path.options.strictSlash
    /\ routes[1].conf.regexp.path.template = <<"/", "a">>
    /\ request.URL.Path = <<"/", "a", "/">>
    /\ resp.matchCalled
    /\ ~matched

\* ------------------------------------------------------------------------
\* braceIndices on its own
\* ------------------------------------------------------------------------

\* The longest string scanned.
MaxLen == 5

BraceSyms == {"{", "}", "a"}

InitBrace ==
    /\ InitRouter
    /\ input = <<>>
    /\ output = braceIndices(<<>>)

\* One more symbol read, and braceIndices applied to the string.
BraceIndices(c) ==
    /\ Len(input) < MaxLen
    /\ input' = Append(input, c)
    /\ output' = braceIndices(input')
    /\ UNCHANGED <<routerVars, callVars>>

NextBrace == \E c \in BraceSyms : BraceIndices(c)

\* braceIndices applied to every string over BraceSyms up to MaxLen.
SpecBrace == InitBrace /\ [][NextBrace]_vars

\* The brace depth after the first i symbols of s.
Depth(s, i) ==
    Cardinality({j \in 1..i : s[j] = "{"}) - Cardinality({j \in 1..i : s[j] = "}"})

Unbalanced(s) == (\E i \in 1..Len(s) : Depth(s, i) < 0) \/ Depth(s, Len(s)) # 0

\* The 0-based positions of the '{' that raise the depth from 0 to 1.
Starts(s) == {i - 1 : i \in {j \in 1..Len(s) : s[j] = "{" /\ Depth(s, j - 1) = 0}}

\* One past the 0-based positions of the '}' that return the depth to 0.
Ends(s) == {j \in 1..Len(s) : s[j] = "}" /\ Depth(s, j) = 0}

\* C10: braceIndices returns the unbalanced-braces error iff the depth goes
\* negative somewhere or is not zero at the end; otherwise it returns, in
\* increasing order, one (start, end) pair per top-level placeholder: start
\* the position of a '{' that raises the depth from 0 to 1, end one past the
\* '}' that returns it to 0, so that nested braces start no pair.
C10_BraceIndices ==
    /\ output.err <=> Unbalanced(input)
    /\ output.err => output.idxs = <<>>
    /\ ~output.err =>
          LET idxs == output.idxs
              n    == Cardinality(Starts(input))
          IN /\ Len(idxs) = 2 * n
             /\ Cardinality(Ends(input)) = n
             /\ {idxs[2 * k - 1] : k \in 1..n} = Starts(input)
             /\ {idxs[2 * k] : k \in 1..n} = Ends(input)
             /\ \A k \in 1..n : idxs[2 * k - 1] < idxs[2 * k]
             /\ \A k \in 1..(n - 1) : idxs[2 * k] <= idxs[2 * k + 1]

\* a{{}}: the nested braces stay inside the one placeholder.
C10_Witness ==
    /\ input = <<"a", "{", "{", "}", "}">>
    /\ output = [err |-> FALSE, idxs |-> <<1, 5>>]

C10_WitnessUnbalanced ==
    /\ input = <<"{", "}", "}", "{">>
    /\ output.err

\* ------------------------------------------------------------------------
\* building a URL part and matching it back
\* ------------------------------------------------------------------------

\* The longest value of a variable.
MaxValueLen == 2

ValueSyms == {"a", "-", "/", ":"}

Values == UNION {[1..n -> ValueSyms] : n \in 1..MaxValueLen}

PathOptions(strictSlash) ==
    [strictSlash |-> strictSlash, useEncodedPath |-> FALSE, strictQueryParamSep |-> FALSE]

\* The templates built from: /{v}, /{a}-{b}, /{v:a|-}, /{v}/ with
\* strictSlash, and the host {h}.
URLTemplates ==
    { newRouteRegexp(<<"/", "{", "v", "}">>, regexpTypePath, PathOptions(FALSE)),
      newRouteRegexp(<<"/", "{", "a", "}", "-", "{", "b", "}">>, regexpTypePath,
                     PathOptions(FALSE)),
      newRouteRegexp(<<"/", "{", "v", ":", "a", "|", "-", "}">>, regexpTypePath,
                     PathOptions(FALSE)),
      newRouteRegexp(<<"/", "{", "v", "}", "/">>, regexpTypePath, PathOptions(TRUE)),
      newRouteRegexp(<<"{", "h", "}">>, regexpTypeHost, PathOptions(FALSE)) }

VarNames(r) == {r.varsN[k] : k \in 1..Len(r.varsN)}

\* The maps that give a value to some of the variables of r.
ValueMaps(r) == UNION {[S -> Values] : S \in SUBSET VarNames(r)}

InitURL ==
    /\ InitRouter
    /\ input \in UNION {{<<r, values>> : values \in ValueMaps(r)} : r \in URLTemplates}
    /\ output = <<>>

\* The request that carries s where the routeRegexp r looks for it.
RequestOf(r, s) ==
    IF r.regexpType = regexpTypeHost
    THEN [Host |-> s, URL |-> ParseURL(<<"/">>), Method |-> "GET"]
    ELSE [Host |-> <<>>,
          URL |-> [Scheme |-> "", Host |-> <<>>, Path |-> s, RawPath |-> <<>>,
                   RawQuery |-> <<>>],
          Method |-> "GET"]

\* The routeRegexpGroup that holds r alone.
GroupOf(r) ==
    IF r.regexpType = regexpTypeHost THEN [path |-> NilRegexp, host |-> r]
    ELSE [path |-> r, host |-> NilRegexp]

\* routeRegexp.Match and routeRegexpGroup.setMatch on the request that
\* carries s: whether r matches, and the variables extracted if it does.
matchBack(r, s) ==
    IF routeRegexpMatch(r, RequestOf(r, s))
    THEN [ok |-> TRUE, vars |-> setMatch(GroupOf(r), RequestOf(r, s), ZeroMatch, ZeroRouteConf).Vars]
    ELSE [ok |-> FALSE, vars |-> <<>>]

\* What is kept of building with values and matching the result back: the
\* result of url, the substituted string, and the match of what url returned.
roundTrip(r, values, u) ==
    [url     |-> u,
     subst   |-> IF VarNames(r) \subseteq DOMAIN values
                 THEN Sprintf(r.reverse, [k \in 1..Len(r.varsN) |-> values[r.varsN[k]]])
                 ELSE <<>>,
     back    |-> IF u.err = "" THEN matchBack(r, u.rv) ELSE [ok |-> FALSE, vars |-> <<>>]]

\* url applied to the values, and the built string matched back.
BuildAndMatch ==
    /\ output = <<>>
    /\ output' = roundTrip(input[1], input[2], url(input[1], input[2]))
    /\ UNCHANGED <<routerVars, callVars, input>>

NextURL == BuildAndMatch

\* routeRegexp.url and the match of its result, for every template of
\* URLTemplates and every map of values.
SpecURL == InitURL /\ [][NextURL]_vars

Built == output # <<>>

\* Every declared variable of the routeRegexp has a value, and each value
\* matches its own validator.
AllValidate ==
    /\ VarNames(input[1]) \subseteq DOMAIN input[2]
    /\ \A k \in 1..Len(input[1].varsN) :
          MatchString(input[1].varsR[k], input[2][input[1].varsN[k]])

\* The values of the declared variables.
Declared(values) == [n \in VarNames(input[1]) |-> values[n]]

C8_WitnessSingle ==
    /\ Built
    /\ input[1].template = <<"/", "{", "v", "}">>
    /\ input[2] = (<<"v">> :> <<"a", "-">>)
    /\ output.back.ok
    /\ output.back.vars = input[2]

\* C9 as claimed: when the substituted string does not match the full
\* pattern, url returns an error: the mismatch of the first declared variable
\* whose value fails its validator, or a generic mismatch when every value
\* validates.
C9_Original ==
    (/\ Built
     /\ VarNames(input[1]) \subseteq DOMAIN input[2]
     /\ ~MatchString(input[1].regexp, output.subst)) =>
        /\ output.url.err = "mismatch"
        /\ ~AllValidate =>
              /\ output.url.bad \in 1..Len(input[1].varsN)
              /\ ~MatchString(input[1].varsR[output.url.bad],
                              input[2][input[1].varsN[output.url.bad]])
              /\ \A j \in 1..(output.url.bad - 1) :
                    MatchString(input[1].varsR[j], input[2][input[1].varsN[j]])

\* /{v:a|-} built from v = "a-": url returns /a-, which does not match.
UnmatchedURLReturned ==
    /\ Built
    /\ input[1].template = <<"/", "{", "v", ":", "a", "|", "-", "}">>
    /\ input[2] = (<<"v">> :> <<"a", "-">>)
    /\ ~MatchString(input[1].regexp, <<"/", "a", "-">>)
    /\ output.url = [err |-> "", rv |-> <<"/", "a", "-">>, bad |-> 0]
    /\ ~output.back.ok

\* What holds of url: an error is returned exactly when a variable has no
\* value, or the substituted string does not match and some value fails its
\* validator; the error is then that of the first such variable.
URLErrors ==
    Built =>
        LET r == input[1]
            missing == {k \in 1..Len(r.varsN) : r.varsN[k] \notin DOMAIN input[2]}
        IN IF missing # {}
           THEN output.url.err = "missing" /\ output.url.bad \in missing
                /\ \A j \in missing : output.url.bad <= j
           ELSE IF ~MatchString(r.regexp, output.subst) /\ ~AllValidate
           THEN output.url.err = "mismatch"
                /\ ~MatchString(r.varsR[output.url.bad], input[2][r.varsN[output.url.bad]])
           ELSE output.url = [err |-> "", rv |-> output.subst, bad |-> 0]

\* ------------------------------------------------------------------------
\* newRouteRegexp over bounded templates
\* ------------------------------------------------------------------------

MaxChunks == 3

\* The pieces templates are made of: single characters, and placeholders
\* with and without a name, with and without a pattern, with a pattern that
\* does not compile.
TemplateChunks ==
    { <<"/">>, <<"a">>, <<"{">>, <<"}">>,
      <<"{", "}">>, <<"{", ":", ".", "}">>, <<"{", "a", ":", "}">>,
      <<"{", "a", "}">>, <<"{", "a", ":", ".", "}">>, <<"{", "a", ":", "(", "}">> }

TemplateKinds == {regexpTypePath, regexpTypeHost, regexpTypePrefix}

\* input is <<kind, strictSlash, template, number of chunks>>; output is what
\* newRouteRegexp returns for it.
TemplateOptions(strictSlash) ==
    [strictSlash |-> strictSlash, useEncodedPath |-> FALSE, strictQueryParamSep |-> FALSE]

InitTemplate ==
    /\ InitRouter
    /\ \E typ \in TemplateKinds, strictSlash \in BOOLEAN :
          /\ input = <<typ, strictSlash, <<>>, 0>>
          /\ output = newRouteRegexp(<<>>, typ, TemplateOptions(strictSlash))

NewRouteRegexp(c) ==
    /\ input[4] < MaxChunks
    /\ input' = <<input[1], input[2], input[3] \o c, input[4] + 1>>
    /\ output' = newRouteRegexp(input[3] \o c, input[1], TemplateOptions(input[2]))
    /\ UNCHANGED <<routerVars, callVars>>

NextTemplate == \E c \in TemplateChunks : NewRouteRegexp(c)

SpecTemplate == InitTemplate /\ [][NextTemplate]_vars

\* The text between the braces of each top-level placeholder of a balanced
\* template, in order.
Nth(S, k) == CHOOSE x \in S : Cardinality({y \in S : y < x}) = k - 1

Tags(tpl) ==
    [k \in 1..Cardinality(Starts(tpl)) |->
        Slice(tpl, Nth(Starts(tpl), k) + 1, Nth(Ends(tpl), k) - 1)]

HasPattern(param) == Contains(param, ":")

TagName(param) == IF HasPattern(param) THEN Slice(param, 0, Index(param, ":")) ELSE param

TagPattern(param) == Slice(param, Index(param, ":") + 1, Len(param))

EmptyNameOrPattern(param) ==
    TagName(param) = <<>> \/ (HasPattern(param) /\ TagPattern(param) = <<>>)

NoCompile(param) ==
    /\ ~EmptyNameOrPattern(param)
    /\ HasPattern(param)
    /\ RegexpCompileFunc(<<"^">> \o TagPattern(param) \o <<"$">>).err

\* C11 as claimed: every balanced template with a placeholder whose name or
\* explicit pattern is empty gets the error "missing name or pattern".
C11_Original ==
    (/\ ~Unbalanced(input[3])
     /\ \E k \in DOMAIN Tags(input[3]) : EmptyNameOrPattern(Tags(input[3])[k])) =>
        /\ output.err = "missing name or pattern"
        /\ output.regexp = NoRegexp

\* C11: newRouteRegexp returns the error "missing name or pattern", and no
\* compiled pattern, for every balanced template with a placeholder whose
\* name or explicit pattern is empty, unless an earlier placeholder has a
\* pattern that does not compile; it returns that error for no other
\* template, so a placeholder with a name and no ':' is never the cause.
C11_MissingNameOrPattern ==
    ~Unbalanced(input[3]) =>
        LET tags == Tags(input[3])
            bad  == {k \in DOMAIN tags : EmptyNameOrPattern(tags[k])}
        IN /\ (\E k \in bad : \A j \in 1..(k - 1) : ~NoCompile(tags[j])) =>
                  /\ output.err = "missing name or pattern"
                  /\ output.regexp = NoRegexp
           /\ output.err = "missing name or pattern" => bad # {}
           /\ (\A k \in DOMAIN tags : ~HasPattern(tags[k]) /\ tags[k] # <<>>) =>
                  output.err = ""

\* /{a:} has a name and an empty pattern.
C11_Witness ==
    /\ input[3] = <<"/", "{", "a", ":", "}">>
    /\ output.err = "missing name or pattern"
    /\ output.regexp = NoRegexp

\* {a}{a} has no ':' at all and compiles, each placeholder with the default
\* pattern of the kind.
C11_WitnessDefault ==
    /\ input[1] = regexpTypeHost
    /\ input[3] = <<"{", "a", "}", "{", "a", "}">>
    /\ output.err = ""
    /\ output.regexp.str = <<"^", "(?P<", "v0", ">", "[^.]", "+", ")",
                              "(?P<", "v1", ">", "[^.]", "+", ")", "$">>

\* {a:(}{} has a placeholder without a name after one whose pattern does not
\* compile, and gets the error of the first.
CompileErrorFirst ==
    /\ input[3] = <<"{", "a", ":", "(", "}", "{", "}">>
    /\ output.err = "error compiling regex"

\* ------------------------------------------------------------------------
\* findFirstQueryKey over bounded queries
\* ------------------------------------------------------------------------

MaxPairs == 3

\* The pairs queries are made of: with and without '=', with an encoded
\* key, with a key or a value that does not decode, and the empty pair.
QueryPairs ==
    { <<>>, <<"k">>, <<"k", "=", "j">>, <<"j", "=", "k">>, <<"=", "j">>,
      <<"%6B", "=", "+">>, <<"k", "=", "%">>, <<"%", "=", "j">> }

QueryKeys == {<<"k">>, <<"j">>}

\* input is <<rawQuery, key, strict, number of pairs>>; output is what
\* findFirstQueryKey returns for it.
InitQuery ==
    /\ InitRouter
    /\ \E key \in QueryKeys, strict \in BOOLEAN :
          /\ input = <<<<>>, key, strict, 0>>
          /\ output = findFirstQueryKey(<<>>, key, strict)

FindFirstQueryKey(sep, pair) ==
    /\ input[4] < MaxPairs
    /\ LET rawQuery == IF input[4] = 0 THEN pair ELSE input[1] \o <<sep>> \o pair
       IN /\ input' = <<rawQuery, input[2], input[3], input[4] + 1>>
          /\ output' = findFirstQueryKey(rawQuery, input[2], input[3])
    /\ UNCHANGED <<routerVars, callVars>>

NextQuery == \E sep \in {"&", ";"}, pair \in QueryPairs : FindFirstQueryKey(sep, pair)

SpecQuery == InitQuery /\ [][NextQuery]_vars

\* The pieces of s between the symbols of seps, in order.
RECURSIVE SplitAny(_, _)
SplitAny(s, seps) ==
    IF \E i \in 1..Len(s) : s[i] \in seps
    THEN LET i == CHOOSE i \in 1..Len(s) : s[i] \in seps /\ \A j \in 1..(i-1) : s[j] \notin seps
         IN <<SubSeq(s, 1, i - 1)>> \o SplitAny(SubSeq(s, i + 1, Len(s)), seps)
    ELSE <<s>>

\* The text of a pair before its first '=', and after it.
PairKey(pair) == IF Contains(pair, "=") THEN Slice(pair, 0, Index(pair, "=")) ELSE pair

PairValue(pair) ==
    IF Contains(pair, "=") THEN Slice(pair, Index(pair, "=") + 1, Len(pair)) ELSE <<>>

\* The pairs of a split query that hold the key: not empty, the key decodes
\* to it and the value decodes.
Holding(pairs, key) ==
    {n \in 1..Len(pairs) :
        /\ pairs[n] # <<>>
        /\ ~QueryUnescape(PairKey(pairs[n])).err
        /\ QueryUnescape(PairKey(pairs[n])).str = key
        /\ ~QueryUnescape(PairValue(pairs[n])).err}

FirstValue(pairs, key) ==
    IF Holding(pairs, key) = {} THEN NotFound
    ELSE [ok |-> TRUE,
          value |-> QueryUnescape(PairValue(pairs[Nth(Holding(pairs, key), 1)])).str]

C12_WitnessStrict ==
    /\ input[1] = <<"k", "=", "j", ";", "j", "=", "k">>
    /\ input[3]
    /\ \/ input[2] = <<"j">> /\ output = NotFound
       \/ input[2] = <<"k">> /\ output = [ok |-> TRUE, value |-> <<"j", ";", "j", "=", "k">>]

\* k=%&%6B=+&k=j searched for k: the first pair has a value that does not
\* decode, the second an encoded key and the value ' '.
C12_WitnessDecoded ==
    /\ input[1] = <<"k", "=", "%", "&", "%6B", "=", "+", "&", "k", "=", "j">>
    /\ input[2] = <<"k">>
    /\ output = [ok |-> TRUE, value |-> <<" ">>]

\* ------------------------------------------------------------------------
\* host templates matched against bounded hosts
\* ------------------------------------------------------------------------

MaxHostLen == 4

HostSyms == {"a", "b", ":", "1"}

\* a, {h}, {h:a|b} and {h:(?:a|b)} say nothing of the port; a:1 and {h}:{p}
\* do.
HostTemplates ==
    { <<"a">>, <<"{", "h", "}">>, <<"{", "h", ":", "a", "|", "b", "}">>,
      <<"{", "h", ":", "(?:", "a", "|", "b", ")", "}">>,
      <<"a", ":", "1">>, <<"{", "h", "}", ":", "{", "p", "}">> }

\* What is kept of matching the request host s against the host template
\* tpl compiled to r: r, whether it matches and the variables extracted.
hostMatch(r, s) == [r |-> r, back |-> matchBack(r, s)]

\* input is <<template, request host>>.
InitHost ==
    /\ InitRouter
    /\ \E tpl \in HostTemplates :
          /\ input = <<tpl, <<>>>>
          /\ output = hostMatch(newRouteRegexp(tpl, regexpTypeHost, TemplateOptions(FALSE)),
                                <<>>)

MatchHost(c) ==
    /\ Len(input[2]) < MaxHostLen
    /\ input' = <<input[1], Append(input[2], c)>>
    /\ output' = hostMatch(newRouteRegexp(input[1], regexpTypeHost, TemplateOptions(FALSE)),
                           Append(input[2], c))
    /\ UNCHANGED <<routerVars, callVars>>

NextHost == \E c \in HostSyms : MatchHost(c)

SpecHost == InitHost /\ [][NextHost]_vars

\* The template has a ':' that is not the one between the name and the
\* pattern of a placeholder.
PortConstraint(tpl) ==
    Cardinality({k \in 1..Len(tpl) : tpl[k] = ":"})
        > Cardinality({k \in DOMAIN Tags(tpl) : HasPattern(Tags(tpl)[k])})

\* The match of the host s against r when nothing is removed from s.
WholeHostMatch(r, s) ==
    IF MatchString(r.regexp, s)
    THEN [ok |-> TRUE,
          vars |-> IF Len(r.varsN) > 0
                   THEN extractVars(s, FindStringSubmatchIndex(r.regexp, s), r.varsN, <<>>)
                   ELSE <<>>]
    ELSE [ok |-> FALSE, vars |-> <<>>]

\* C13: for a host routeRegexp, wildcardHostPort is true iff the template
\* places no port constraint, and then the request host is matched, and its
\* variables extracted, with everything from its first ':' removed.
C13_WildcardHostPort ==
    /\ output.r.err = ""
    /\ output.r.wildcardHostPort <=> ~PortConstraint(input[1])
    /\ output.r.wildcardHostPort =>
          output.back = WholeHostMatch(output.r, StripPort(input[2]))

\* What holds of a host routeRegexp: wildcardHostPort is true iff the text
\* of the full pattern has no ':', that of a non-capturing group "(?:"
\* included; the host is matched without its port when it is true, and
\* whole when it is false.
WildcardHostPortOfPattern ==
    /\ output.r.err = ""
    /\ output.r.wildcardHostPort <=>
          ~\E k \in 1..Len(output.r.regexp.str) : output.r.regexp.str[k] \in {":", "(?:"}
    /\ output.back = WholeHostMatch(output.r, IF output.r.wildcardHostPort
                                              THEN StripPort(input[2]) ELSE input[2])

\* {h} matches a:1 with h = "a".
HostPortIgnored ==
    /\ input = <<<<"{", "h", "}">>, <<"a", ":", "1">>>>
    /\ output.r.wildcardHostPort
    /\ output.back = [ok |-> TRUE, vars |-> (<<"h">> :> <<"a">>)]

\* {h:(?:a|b)} says nothing of the port, matches a and does not match a:1.
HostPortNotIgnored ==
    /\ input = <<<<"{", "h", ":", "(?:", "a", "|", "b", ")", "}">>, <<"a", ":", "1">>>>
    /\ ~PortConstraint(input[1])
    /\ ~output.r.wildcardHostPort
    /\ ~output.back.ok
    /\ WholeHostMatch(output.r, <<"a">>).ok

\* ------------------------------------------------------------------------
\* the configuration of routers and routes, in memory
\* ------------------------------------------------------------------------

MaxConfRoutes == 3

MaxObjects == 8

\* The routeConf of a new Router, its regexps nil pointers and its matchers
\* the nil slice.
ZeroRouteConfAt ==
    [ZeroRouteConf EXCEPT !.regexp = [path |-> 0, host |-> 0], !.matchers = NilSlice]

NoSub == [conf |-> ZeroRouteConfAt, on |-> FALSE]

\* NewRouter(), its configuration in memory.  A route is its routeConf, the
\* router that registered it (0 the root, k the subrouter of the k-th route)
\* and the configuration of its own subrouter, if it has one.
InitConf ==
    /\ routes = <<>>
    /\ middlewares = <<>>
    /\ NotFoundHandler = Nil
    /\ MethodNotAllowedHandler = Nil
    /\ routeConf = ZeroRouteConfAt
    /\ mem = NoMem
    /\ called = ""
    /\ request = NoRequest
    /\ matched = FALSE
    /\ match = ZeroMatch
    /\ resp = NoResponse
    /\ walking = NoWalk
    /\ calls = NoCalls
    /\ input = <<>>
    /\ output = <<>>

StrictQueryParamSep(value) ==
    /\ Registering
    /\ routeConf' = [routeConf EXCEPT !.strictQueryParamSep = value]
    /\ UNCHANGED <<routes, middlewares, NotFoundHandler, MethodNotAllowedHandler,
                   mem, callVars, pureVars>>

OmitRouteFromContext(value) ==
    /\ Registering
    /\ routeConf' = [routeConf EXCEPT !.omitRouteFromContext = value]
    /\ UNCHANGED <<routes, middlewares, NotFoundHandler, MethodNotAllowedHandler,
                   mem, callVars, pureVars>>

OmitRouterFromContext(value) ==
    /\ Registering
    /\ routeConf' = [routeConf EXCEPT !.omitRouterFromContext = value]
    /\ UNCHANGED <<routes, middlewares, NotFoundHandler, MethodNotAllowedHandler,
                   mem, callVars, pureVars>>

\* The routeConf of the router o: the root, or the subrouter of route o.
RouterConfOf(rs, top, o) ==
    IF o = 0 THEN top ELSE IF o > 0 THEN rs[o].sub.conf ELSE ZeroRouteConfAt

\* The routers of the tree: the root 0, the subrouter k of the k-th route
\* and the router -k that is the handler of the k-th route.
Routers ==
    {0} \cup {k \in 1..Len(routes) : routes[k].sub.on}
        \cup {-k : k \in {j \in 1..Len(routes) : routes[j].handler = Handler("router", -j)}}

\* The number of objects in memory.
Allocated(m) == Len(m.arrays) + Len(m.regexps)

\* o.NewRoute().
NewRoute(o) ==
    /\ Registering
    /\ Len(routes) < MaxConfRoutes
    /\ Allocated(mem) < MaxObjects
    /\ LET c == copyRouteConfAt(mem, RouterConfOf(routes, routeConf, o))
       IN /\ routes' = Append(routes, [err |-> "",
                                       conf |-> c.conf,
                                       handler |-> Nil,
                                       sub |-> NoSub,
                                       owner |-> o])
          /\ mem' = c.mem
    /\ UNCHANGED <<middlewares, NotFoundHandler, MethodNotAllowedHandler, routeConf,
                   callVars, pureVars>>

\* Route.Subrouter() of the k-th route: a router with a copy of the route's
\* configuration, added to the route as a matcher (-k).
Subrouter(k) ==
    /\ Registering
    /\ ~routes[k].sub.on
    /\ Allocated(mem) < MaxObjects
    /\ LET c == copyRouteConfAt(mem, routes[k].conf)
           a == appendSlice(c.mem, routes[k].conf.matchers, -k)
       IN /\ routes' = [routes EXCEPT ![k].conf.matchers = a.slice,
                                      ![k].sub = [conf |-> c.conf, on |-> TRUE]]
          /\ mem' = a.mem
    /\ UNCHANGED <<middlewares, NotFoundHandler, MethodNotAllowedHandler, routeConf,
                   callVars, pureVars>>

\* Route.addRegexpMatcher of the k-th route for a path template named by k:
\* the template follows that of the path regexp the route already has, the
\* new routeRegexp takes its place in the route and is added as a matcher.
AddRegexpMatcher(k) ==
    /\ Registering
    /\ Allocated(mem) < MaxObjects
    /\ LET old == routes[k].conf.regexp.path
           rr  == [template |-> (IF old = 0 THEN <<>> ELSE mem.regexps[old].template) \o <<k>>]
           m1  == [mem EXCEPT !.regexps = Append(@, rr)]
           a   == appendSlice(m1, routes[k].conf.matchers, k)
       IN /\ routes' = [routes EXCEPT ![k].conf.regexp.path = Len(mem.regexps) + 1,
                                      ![k].conf.matchers = a.slice]
          /\ mem' = a.mem
    /\ UNCHANGED <<middlewares, NotFoundHandler, MethodNotAllowedHandler, routeConf,
                   callVars, pureVars>>

FlagNames ==
    {"strictSlash", "skipClean", "useEncodedPath", "strictQueryParamSep",
     "omitRouteFromContext", "omitRouterFromContext"}

\* Each run sets one flag of the root, and a route gets its matchers and its
\* subrouter before the next route is created, as in the chained calls
\* r.NewRoute().Path(tpl).Subrouter().
NextConf ==
    \/ /\ \A f \in FlagNames : ~routeConf[f]
       /\ \/ StrictSlash(TRUE)
          \/ SkipClean(TRUE)
          \/ UseEncodedPath
          \/ StrictQueryParamSep(TRUE)
          \/ OmitRouteFromContext(TRUE)
          \/ OmitRouterFromContext(TRUE)
    \/ \E o \in Routers : NewRoute(o)
    \/ \E k \in {Len(routes)} \ {0} : Subrouter(k) \/ AddRegexpMatcher(k)

SpecConf == InitConf /\ [][NextConf]_vars

\* What a routeConf holds: its flags, the routeRegexps its pointers refer to
\* and the elements of its matcher slice.
NilObject == [template |-> <<0>>]

ViewOf(m, conf) ==
    [conf EXCEPT !.regexp = [path |-> IF conf.regexp.path = 0 THEN NilObject
                                      ELSE m.regexps[conf.regexp.path],
                             host |-> IF conf.regexp.host = 0 THEN NilObject
                                      ELSE m.regexps[conf.regexp.host]],
                 !.matchers = elems(m, conf.matchers)]

\* The routes, and the subrouters, whose configuration a step changes.
ChangedRoutes ==
    {k \in 1..Len(routes) : ViewOf(mem', routes'[k].conf) # ViewOf(mem, routes[k].conf)}

ChangedSubrouters ==
    {k \in 1..Len(routes) :
        /\ routes[k].sub.on
        /\ ViewOf(mem', routes'[k].sub.conf) # ViewOf(mem, routes[k].sub.conf)}

RootChanged == ViewOf(mem', routeConf') # ViewOf(mem, routeConf)

\* The addresses a routeConf holds.
ArraysOf(conf) == {conf.matchers.ptr} \ {0}

RegexpsOf(conf) == {conf.regexp.path, conf.regexp.host} \ {0}

\* The routeConfs of the routes rs and of the root top, as a sequence.
Holders(rs, top) ==
    <<top>> \o [k \in 1..Len(rs) |-> rs[k].conf]
            \o [k \in 1..Len(rs) |-> IF rs[k].sub.on THEN rs[k].sub.conf ELSE ZeroRouteConfAt]

\* No two of the routeConfs h hold the same array or the same routeRegexp.
Separate(h) ==
    \A i \in 1..Len(h) : \A j \in (i + 1)..Len(h) :
        /\ ArraysOf(h[i]) \cap ArraysOf(h[j]) = {}
        /\ RegexpsOf(h[i]) \cap RegexpsOf(h[j]) = {}

\* What a step may change: root tells that the root's configuration changed,
\* cr and cs are the routes and the subrouters whose configuration changed.
Framed(root, cr, cs) ==
    /\ root => cr = {} /\ cs = {} /\ Len(routes') = Len(routes)
    /\ Len(routes') > Len(routes) =>
          /\ ~root /\ cr = {} /\ cs = {}
          /\ ViewOf(mem', routes'[Len(routes')].conf)
               = ViewOf(mem, RouterConfOf(routes, routeConf, routes'[Len(routes')].owner))
    /\ cr # {} => ~root /\ cs = {} /\ Cardinality(cr) = 1

FailureHandler == IF MethodMismatchRecorded THEN MethodNotAllowedHandler ELSE NotFoundHandler

C15_WitnessFalse ==
    /\ called = "Match"
    /\ Len(routes) > 0
    /\ NoRouteMatches
    /\ FailureHandler = Nil
    /\ ~matched
    /\ match.Handler = Nil

\* ------------------------------------------------------------------------
\* Router.Walk
\* ------------------------------------------------------------------------

\* Route.Handler(router) of the k-th route, for a new Router named -k.
MountRouter(k) ==
    /\ Registering
    /\ routes[k].handler = Nil
    /\ routes' = [routes EXCEPT ![k] = routeHandler(@, Handler("router", -k))]
    /\ UNCHANGED <<middlewares, NotFoundHandler, MethodNotAllowedHandler, routeConf,
                   mem, callVars, pureVars>>

\* The values a WalkFunc returns: nil, SkipRouter, another error.
SkipRouter == "SkipRouter"

WalkErrors == {"", SkipRouter, "error"}

\* The routers walk descends into from the route k, in order: those among
\* its matchers, then its handler.
subRouters(rs, k) ==
    (IF rs[k].sub.on THEN <<k>> ELSE <<>>)
    \o (IF rs[k].handler = Handler("router", -k) THEN <<-k>> ELSE <<>>)

\* A faulty variant: SkipRouter is taken for nil.
subRoutersAlways(rs, k, err) == subRouters(rs, k)

\* The routers walk descends into after walkFn returned err for the route k.
subRoutersAfter(rs, k, err) == IF err = SkipRouter THEN <<>> ELSE subRouters(rs, k)

\* The routes of the router o after the k-th route, in order.
routesAfter(rs, o, k) == {j \in (k + 1)..Len(rs) : rs[j].owner = o}

\* walk up to its next call of walkFn.  A frame of the stack is one call of
\* walk: its router, the route its loop is at (0 before the first) and the
\* routers still to descend into for that route.  The result has the frame
\* of the call that makes the next call of walkFn on top, or is empty when
\* walk returned.
RECURSIVE resume(_, _)
resume(rs, stack) ==
    IF stack = <<>> THEN <<>>
    ELSE LET top  == stack[Len(stack)]
             rest == SubSeq(stack, 1, Len(stack) - 1)
         IN IF top.todo # <<>>
            THEN resume(rs, Append(rest, [top EXCEPT !.todo = Tail(@)])
                            \o <<[route |-> 0, router |-> Head(top.todo), todo |-> <<>>]>>)
            ELSE IF routesAfter(rs, top.router, top.route) = {} THEN resume(rs, rest)
            ELSE stack

\* The arguments of the next call of walkFn: the route, its router and the
\* ancestors, which are the routes the frames below the top are at.
nextCall(rs, stack) ==
    [route     |-> Nth(routesAfter(rs, stack[Len(stack)].router, stack[Len(stack)].route), 1),
     router    |-> stack[Len(stack)].router,
     ancestors |-> [i \in 1..(Len(stack) - 1) |-> stack[i].route]]

\* r.Walk(walkFn) up to the first call of walkFn.
Walk ==
    /\ Registering
    /\ Len(routes) > 0
    /\ called' = "Walk"
    /\ walking' = [stack   |-> resume(routes, <<[route |-> 0, router |-> 0, todo |-> <<>>]>>),
                   err     |-> "",
                   visited |-> <<>>,
                   done    |-> FALSE]
    /\ UNCHANGED <<routerVars, request, matched, match, resp, calls, pureVars>>

\* walk after walkFn returned err for the call c made from the stack st.
walkOn(rs, st, c, err, seen) ==
    IF err \notin {"", SkipRouter}
    THEN [stack |-> <<>>, err |-> err, visited |-> seen, done |-> TRUE]
    ELSE [stack   |-> resume(rs, [st EXCEPT ![Len(st)] =
                                    [route |-> c.route,
                                     router |-> c.router,
                                     todo |-> subRoutersAfter(rs, c.route, err)]]),
          err     |-> "",
          visited |-> seen,
          done    |-> resume(rs, [st EXCEPT ![Len(st)] =
                                    [route |-> c.route,
                                     router |-> c.router,
                                     todo |-> subRoutersAfter(rs, c.route, err)]]) = <<>>]

\* The next call of walkFn, which returns err, and walk up to the call after
\* it or to its return.
WalkFn(err) ==
    /\ called = "Walk"
    /\ ~walking.done
    /\ walking.stack # <<>>
    /\ walking' = walkOn(routes, walking.stack, nextCall(routes, walking.stack), err,
                         Append(walking.visited,
                                [err       |-> err,
                                 route     |-> nextCall(routes, walking.stack).route,
                                 router    |-> nextCall(routes, walking.stack).router,
                                 ancestors |-> nextCall(routes, walking.stack).ancestors]))
    /\ UNCHANGED <<routerVars, called, request, matched, match, resp, calls, pureVars>>

NextWalk ==
    \/ \E o \in Routers : NewRoute(o)
    \/ \E k \in 1..Len(routes) : Subrouter(k) \/ MountRouter(k)
    \/ Walk
    \/ \E err \in WalkErrors : WalkFn(err)

SpecWalk == InitConf /\ [][NextWalk]_vars

\* The routes that lead to the k-th route, from the root down: the route
\* whose router registered it, and that route's own ancestors.
RECURSIVE AncestorsOf(_, _)
AncestorsOf(rs, k) ==
    IF rs[k].owner = 0 THEN <<>>
    ELSE LET parent == IF rs[k].owner > 0 THEN rs[k].owner ELSE -rs[k].owner
         IN Append(AncestorsOf(rs, parent), parent)

\* The routes of the router o after the k-th, each followed by the routes
\* of its routers (those of its matchers, then its handler) unless it is in
\* S, in registration order.
RECURSIVE PreOrder(_, _, _, _)
PreOrder(rs, o, k, S) ==
    IF routesAfter(rs, o, k) = {} THEN <<>>
    ELSE LET t == Nth(routesAfter(rs, o, k), 1)
         IN <<t>>
            \o (IF t \notin S /\ rs[t].sub.on THEN PreOrder(rs, t, 0, S) ELSE <<>>)
            \o (IF t \notin S /\ rs[t].handler = Handler("router", -t)
                THEN PreOrder(rs, -t, 0, S) ELSE <<>>)
            \o PreOrder(rs, o, t, S)

Skipped == {walking.visited[i].route : i \in {j \in 1..Len(walking.visited) :
                                              walking.visited[j].err = SkipRouter}}

\* The calls of walkFn so far are the first of the sequence pre, each with
\* its router and its ancestors; the walk is over when walkFn returned an
\* error, which Walk returns, or when it was called on all of pre.
Walked(pre) ==
    /\ Len(walking.visited) <= Len(pre)
    /\ \A i \in 1..Len(walking.visited) :
          /\ walking.visited[i].route = pre[i]
          /\ walking.visited[i].router = routes[pre[i]].owner
          /\ walking.visited[i].ancestors = AncestorsOf(routes, pre[i])
          /\ walking.visited[i].err = "error" =>
                i = Len(walking.visited) /\ walking.done /\ walking.err = "error"
    /\ walking.err # "" =>
          /\ walking.visited # <<>>
          /\ walking.visited[Len(walking.visited)].err = walking.err
    /\ walking.done <=> (walking.err # "" \/ Len(walking.visited) = Len(pre))

\* C16: Walk calls walkFn on the routes of the router tree in registration
\* order, depth-first: a route, then the routes of its routers, then its
\* next sibling, each route once, with its router and the chain of its
\* ancestors.  After SkipRouter the routers of the route are left out and the
\* walk goes on with the next sibling; any other error ends the walk at once
\* and is returned.  With neither, walkFn is called on every route.
C16_WalkOrder ==
    called = "Walk" =>
        /\ Walked(PreOrder(routes, 0, 0, Skipped))
        /\ Len(PreOrder(routes, 0, 0, {})) = Len(routes)
        /\ {PreOrder(routes, 0, 0, {})[i] : i \in 1..Len(routes)} = 1..Len(routes)

\* Route 1 has a subrouter with route 2, and route 3 is its sibling: walkFn
\* was called on 1, 2 and 3 in that order, on 2 with the ancestor 1.
C16_Witness ==
    /\ walking.done /\ walking.err = ""
    /\ Len(routes) = 3
    /\ routes[2].owner = 1 /\ routes[3].owner = 0
    /\ walking.visited = << [err |-> "", route |-> 1, router |-> 0, ancestors |-> <<>>],
                            [err |-> "", route |-> 2, router |-> 1, ancestors |-> <<1>>],
                            [err |-> "", route |-> 3, router |-> 0, ancestors |-> <<>>] >>

\* The same tree with SkipRouter returned for route 1: route 2 is left out.
C16_WitnessSkip ==
    /\ walking.done /\ walking.err = ""
    /\ Len(routes) = 3
    /\ routes[2].owner = 1 /\ routes[3].owner = 0
    /\ walking.visited = << [err |-> SkipRouter, route |-> 1, router |-> 0, ancestors |-> <<>>],
                            [err |-> "", route |-> 3, router |-> 0, ancestors |-> <<>>] >>

\* Route 3 is registered by the subrouter of route 1 after route 2 was
\* registered by the root: it is walked before route 2, with the ancestor 1;
\* the error returned for it ends the walk before route 2.
C16_WitnessError ==
    /\ walking.done /\ walking.err = "error"
    /\ Len(routes) = 3
    /\ routes[2].owner = 0 /\ routes[3].owner = -1
    /\ walking.visited = << [err |-> "", route |-> 1, router |-> 0, ancestors |-> <<>>],
                            [err |-> "error", route |-> 3, router |-> -1, ancestors |-> <<1>>] >>

\* ------------------------------------------------------------------------
\* concurrent calls of Router.Match and Router.ServeHTTP
\* ------------------------------------------------------------------------

\* A faulty variant: every call uses the RouteMatch of the first call.
sharedMatch(cs, c) == cs[1].res.match

\* The RouteMatch of the call c: the match variable of its ServeHTTP, or the
\* argument of its Match.
ownMatch(cs, c) == cs[c].res.match

\* The call c begins, the calls before it having begun: ServeHTTP at its
\* canonicalization step, Match at the first route of its loop.
Begin(c, op, req) ==
    /\ calls[c].pc = "idle"
    /\ \A d \in 1..(c - 1) : calls[d].pc # "idle"
    /\ called' = "Concurrent"
    /\ calls' = [calls EXCEPT ![c] = [@ EXCEPT !.pc = IF op = "ServeHTTP" THEN "clean" ELSE "loop",
                                               !.op = op, !.req = req, !.k = 1]]
    /\ UNCHANGED <<routerVars, request, matched, match, resp, walking, pureVars>>

\* ServeHTTP of the call c up to its call of r.Match: the canonicalization
\* redirect, which ends the call, or nothing.
Clean(c) ==
    /\ calls[c].pc = "clean"
    /\ calls' = [calls EXCEPT ![c] =
                    IF cleanRedirects(router, calls[c].req)
                    THEN [@ EXCEPT !.pc = "done", !.resp = serveHTTP(router, calls[c].req).resp]
                    ELSE [@ EXCEPT !.pc = "loop"]]
    /\ UNCHANGED <<routerVars, called, request, matched, match, resp, walking, pureVars>>

\* Where the call c goes when its Router.Match returns.
afterMatch(c) == IF calls[c].op = "Match" THEN "done" ELSE "serve"

\* One turn of the loop of Router.Match in the call c, or what follows the
\* loop when it is over.
RouteStep(c) ==
    /\ calls[c].pc = "loop"
    /\ calls' = [calls EXCEPT ![c] =
          IF calls[c].k > Len(routes)
          THEN [@ EXCEPT !.pc = afterMatch(c), !.res = noRouteMatch(router, ownMatch(calls, c))]
          ELSE IF routeMatch(routes[calls[c].k], calls[c].k, calls[c].req,
                             ownMatch(calls, c)).ok
          THEN [@ EXCEPT !.pc = afterMatch(c),
                         !.res = [ok    |-> TRUE,
                                  match |-> routeMatched(router,
                                               routeMatch(routes[calls[c].k], calls[c].k,
                                                          calls[c].req,
                                                          ownMatch(calls, c)).match)]]
          ELSE [@ EXCEPT !.k = @ + 1,
                         !.res = [ok    |-> FALSE,
                                  match |-> routeMatch(routes[calls[c].k], calls[c].k,
                                                       calls[c].req,
                                                       ownMatch(calls, c)).match]]]
    /\ UNCHANGED <<routerVars, called, request, matched, match, resp, walking, pureVars>>

\* ServeHTTP of the call c after r.Match returned: the request context, the
\* default handlers and the handler served.
Serve(c) ==
    /\ calls[c].pc = "serve"
    /\ calls' = [calls EXCEPT ![c] =
                    [@ EXCEPT !.pc = "done", !.resp = dispatchWith(router, calls[c].res).resp]]
    /\ UNCHANGED <<routerVars, called, request, matched, match, resp, walking, pureVars>>

\* The k-th route as r.Handle(tpl, handler) registers it, and as
\* r.Handle(tpl, handler).Methods("GET") does.
Handled(tpl, k) == routeHandler(routePath(newRoute(ZeroRouteConf), tpl), Handler("route", k))

HandledGet(tpl, k) == routeMethods(Handled(tpl, k), {"GET"})

\* The routers the calls run on, registration over: no route, /a for GET,
\* /a and /{v} for GET, /{v} and /a for GET; with and without a middleware
\* and each of the fallback handlers.
ServedRoutes ==
    { <<>>,
      <<HandledGet(<<"/", "a">>, 1)>>,
      <<HandledGet(<<"/", "a">>, 1), HandledGet(<<"/", "{", "v", "}">>, 2)>>,
      <<Handled(<<"/", "{", "v", "}">>, 1), HandledGet(<<"/", "a">>, 2)>> }

InitConcurrent ==
    /\ routes \in ServedRoutes
    /\ middlewares \in {<<>>, <<1>>}
    /\ NotFoundHandler \in {Nil, Handler("nf", 0)}
    /\ MethodNotAllowedHandler \in {Nil, Handler("mna", 0)}
    /\ routeConf = ZeroRouteConf
    /\ mem = NoMem
    /\ called = ""
    /\ request = NoRequest
    /\ matched = FALSE
    /\ match = ZeroMatch
    /\ resp = NoResponse
    /\ walking = NoWalk
    /\ calls = NoCalls
    /\ input = <<>>
    /\ output = <<>>

NextConcurrent ==
    \/ \E c \in 1..MaxCalls, op \in {"Match", "ServeHTTP"}, m \in Methods, p \in DispatchPaths :
          Begin(c, op, Request(m, p))
    \/ \E c \in 1..MaxCalls : Clean(c) \/ RouteStep(c) \/ Serve(c)

SpecConcurrent == InitConcurrent /\ [][NextConcurrent]_vars

\* What the call c would give if it ran alone.
Alone(c) ==
    IF calls[c].op = "ServeHTTP" THEN serveHTTP(router, calls[c].req)
    ELSE matchOnly(routerMatch(router, calls[c].req, ZeroMatch))

\* C17: calls of Match and ServeHTTP that run concurrently, their steps
\* interleaved in any order, leave the router as it is: its routes and their
\* compiled patterns, middlewares, fallback handlers and configuration; a
\* step of a call changes nothing of another call; and every call ends with
\* what it would give if it ran alone.
C17_DispatchReadOnly ==
    /\ [](\A c \in 1..MaxCalls :
            calls[c].pc = "done" =>
                /\ calls[c].res.ok = Alone(c).ok
                /\ calls[c].res.match = Alone(c).match
                /\ calls[c].resp = Alone(c).resp)
    /\ [][called' = "Concurrent" =>
            /\ UNCHANGED routerVars
            /\ Cardinality({c \in 1..MaxCalls : calls'[c] # calls[c]}) <= 1]_vars

\* Two calls ended after their steps interleaved on a router with routes:
\* the first found a method mismatch, the second a route.
C17_Witness ==
    /\ calls[1].pc = "done" /\ calls[2].pc = "done"
    /\ calls[1].op = "ServeHTTP" /\ calls[2].op = "ServeHTTP"
    /\ calls[1].res.match.MatchErr = ErrMethodMismatch
    /\ calls[2].res.ok /\ calls[2].res.match.Route = 2
    /\ calls[1].resp.status = StatusMethodNotAllowed
    /\ calls[2].resp.ran = Handler("route", 2)

\* ------------------------------------------------------------------------
\* the request context of the handler ServeHTTP runs
\* ------------------------------------------------------------------------

NextContext ==
    \/ \E v \in BOOLEAN : OmitRouteFromContext(v)
    \/ \E v \in BOOLEAN : OmitRouterFromContext(v)
    \/ \E tpl \in DispatchTemplates : Handle(tpl)
    \/ SetNotFoundHandler
    \/ \E m \in Methods, p \in DispatchPaths : ServeHTTP(Request(m, p))

\* The context flags set, routes registered, then requests served.
SpecContext == Init /\ [][NextContext]_vars

\* The last call is a ServeHTTP that ran a handler Router.Match resolved.
ServedResolved == called = "ServeHTTP" /\ matched /\ match.Handler # Nil

\* C18: the handler Router.Match resolved runs on a request whose
\* CurrentRoute is the resolved Route, or nil when omitRouteFromContext is
\* set, whose CurrentRouter is the Router unless omitRouterFromContext is
\* set, and whose Vars are the variables of the match, none when there are
\* none; the request object the caller passed holds the context it had.
C18_RequestContext ==
    ServedResolved =>
        /\ resp.ran = match.Handler
        /\ CurrentRoute(resp.ctx) = (IF routeConf.omitRouteFromContext THEN 0 ELSE match.Route)
        /\ CurrentRouter(resp.ctx) = ~routeConf.omitRouterFromContext
        /\ Vars(resp.ctx) = match.Vars
        /\ resp.ctx.hasVars = (match.Vars # <<>>)
        /\ resp.orig = NoContext

\* A route with a variable served with the route omitted and the router kept.
C18_Witness ==
    /\ ServedResolved
    /\ routeConf.omitRouteFromContext /\ ~routeConf.omitRouterFromContext
    /\ match.Route > 0 /\ match.Vars # <<>>
    /\ CurrentRoute(resp.ctx) = 0 /\ CurrentRouter(resp.ctx)
    /\ Vars(resp.ctx) = match.Vars

\* The same with both omitted, ...
C18_WitnessBoth ==
    /\ ServedResolved
    /\ routeConf.omitRouteFromContext /\ routeConf.omitRouterFromContext
    /\ match.Route > 0 /\ match.Vars # <<>>
    /\ resp.ctx = [NoContext EXCEPT !.hasVars = TRUE, !.vars = match.Vars]

\* ... with the router omitted and the route kept, ...
C18_WitnessRoute ==
    /\ ServedResolved
    /\ ~routeConf.omitRouteFromContext /\ routeConf.omitRouterFromContext
    /\ match.Vars # <<>>
    /\ CurrentRoute(resp.ctx) = match.Route /\ match.Route > 0
    /\ ~CurrentRouter(resp.ctx)

\* ... with neither omitted, ...
C18_WitnessNone ==
    /\ ServedResolved
    /\ ~routeConf.omitRouteFromContext /\ ~routeConf.omitRouterFromContext
    /\ match.Vars # <<>>
    /\ CurrentRoute(resp.ctx) = match.Route /\ match.Route > 0
    /\ CurrentRouter(resp.ctx)

\* ... and a route without variables served with both omitted: the handler
\* runs on the context of the caller.
C18_WitnessNoVars ==
    /\ ServedResolved
    /\ routeConf.omitRouteFromContext /\ routeConf.omitRouterFromContext
    /\ match.Route > 0 /\ match.Vars = <<>>
    /\ resp.ctx = NoContext

\* The NotFoundHandler, resolved by Router.Match, served with no Route.
C18_WitnessFallback ==
    /\ ServedResolved
    /\ match.Handler = NotFoundHandler
    /\ ~routeConf.omitRouteFromContext
    /\ CurrentRoute(resp.ctx) = 0 /\ CurrentRouter(resp.ctx)

\* ------------------------------------------------------------------------
\* cleanPath over bounded paths, and the redirect followed
\* ------------------------------------------------------------------------

\* The longest path cleaned.
MaxPathLen == 6

\* The symbols of a decoded path; "%2F" is those three characters.
PathSyms == {"/", ".", "a", "%2F"}

\* A GET request whose URL.Path is p.
RequestOfPath(p) == Request("GET", PathEscape(p))

\* input is the path p, output is cleanPath(p).
InitClean ==
    /\ InitRouter
    /\ input = <<>>
    /\ output = cleanPath(<<>>)

\* One more symbol of the path, and cleanPath applied to it.
CleanPath(c) ==
    /\ called = ""
    /\ Len(input) < MaxPathLen
    /\ input' = Append(input, c)
    /\ output' = cleanPath(input')
    /\ UNCHANGED <<routerVars, callVars>>

\* r.ServeHTTP on a request for the path.
ServePath ==
    /\ called = ""
    /\ ServeHTTP(RequestOfPath(input))

\* The client requests the Location of the canonicalization redirect.
FollowRedirect ==
    /\ called = "ServeHTTP"
    /\ resp.status = StatusMovedPermanently
    /\ ~resp.matchCalled
    /\ Record("Follow", Request("GET", resp.location),
              serveHTTP(router, Request("GET", resp.location)))

NextClean ==
    \/ \E c \in PathSyms : CleanPath(c)
    \/ ServePath
    \/ FollowRedirect

\* cleanPath applied to every path over PathSyms up to MaxPathLen, each
\* served by a router with skipClean and useEncodedPath unset, and the
\* redirect followed.
SpecClean == InitClean /\ [][NextClean]_vars

\* The position k of q is outside q or holds a slash.
Bounds(q, k) == k < 1 \/ k > Len(q) \/ q[k] = "/"

\* q has a segment "." or "..".
HasDotSegment(q) ==
    \E k \in 1..Len(q) :
        /\ q[k] = "."
        /\ Bounds(q, k - 1)
        /\ \/ Bounds(q, k + 1)
           \/ q[k + 1] = "." /\ Bounds(q, k + 2)

\* q has two slashes in a row.
HasRepeatedSlash(q) == \E k \in 1..(Len(q) - 1) : q[k] = "/" /\ q[k + 1] = "/"

EndsWithSlash(q) == q # <<>> /\ q[Len(q)] = "/"

\* C19: for every path p, cleanPath(p) starts with a slash, has no "." or
\* ".." segment and no repeated slash, ends with a slash exactly when p does
\* or it is the root, and is left as it is by cleanPath; and the request a
\* client makes for the Location of the canonicalization redirect is not
\* answered by that redirect again.
C19_CleanPathCanonical ==
    /\ output # <<>> /\ output[1] = "/"
    /\ ~HasDotSegment(output)
    /\ ~HasRepeatedSlash(output)
    /\ EndsWithSlash(output) <=> (EndsWithSlash(input) \/ output = <<"/">>)
    /\ cleanPath(output) = output
    /\ called = "Follow" =>
          /\ request.URL.Path = output
          /\ resp.matchCalled
          /\ resp.status # StatusMovedPermanently

\* /.//a/ is cleaned to /a/, redirected to, and /a/ is served.
C19_Witness ==
    /\ input = <<"/", ".", "/", "/", "a", "/">>
    /\ output = <<"/", "a", "/">>
    /\ called = "Follow"
    /\ resp.status = StatusNotFound

\* /a/../ is cleaned to the root.
C19_WitnessRoot ==
    /\ input = <<"/", "a", "/", ".", ".", "/">>
    /\ output = <<"/">>
    /\ called = "Follow"

\* A path that is canonical is served at once.
C19_WitnessCanonical ==
    /\ input = <<"/", "a", "%2F", ".">>
    /\ output = input
    /\ called = "ServeHTTP"
    /\ resp.matchCalled
====
